---- MODULE Spec2Model ----
(***************************************************************************)
(* Marketplace REST backend: users, categories, products, bearer tokens,   *)
(* the product listing with its cache, and the races on unique columns.    *)
(* Every handler of backend/app/routers is one action; the relational      *)
(* store is the three sets users, categories and products, and a commit    *)
(* succeeds only when the constraints declared in backend/app/models hold. *)
(***************************************************************************)
EXTENDS Integers, Sequences, FiniteSets, TLC

VARIABLES
    users,        \* rows of table users
    categories,   \* rows of table categories
    products,     \* rows of table products
    tokens,       \* bearer tokens issued so far (what clients may present)
    now,          \* wall clock, in seconds
    next_id,      \* how many ids each table has handed out (uuid4 never repeats)
    cache,        \* cache_manager.backend._cache: key -> entry
    resp,         \* the last request served and its response
    fk_enforced,  \* whether the engine checks FOREIGN KEY clauses at commit
    inflight,     \* requests that are between their check and their commit
    limiter,      \* rate_limiter: _requests (key -> timestamps) and _last_cleanup
    images        \* IMAGES_DIRECTORY: the files in it, and the uuid4() draws so far

vars == <<users, categories, products, tokens, now, next_id, cache, resp,
          fk_enforced, inflight, limiter, images>>

store == <<users, categories, products>>

(***************************************************************************)
(* Bounds of the model.                                                    *)
(***************************************************************************)
MaxUsers == 2          \* registrations that succeed in one run
MaxCategories == 2     \* category creations that succeed in one run
MaxProducts == 2       \* product creations that succeed in one run
MaxTokens == 2         \* tokens issued in one run
MaxTicks == 2          \* clock advances in one run
TickStep == 1000       \* seconds per clock advance
MaxCached == 1         \* entries the cache may hold
MaxCalls == 4          \* is_allowed calls put to the two rate limiters in one run
CallStep == 1          \* seconds between two is_allowed calls
MaxUploads == 1        \* uploads accepted for processing in one run
MaxRequests == 3       \* requests started in one run of the race specification

(***************************************************************************)
(* Program constants.                                                      *)
(***************************************************************************)
ACCESS_TOKEN_EXPIRE_MINUTES == 30
PRODUCTS_TTL == 300
MAX_FILE_SIZE == 5242880     \* 5 * 1024 * 1024 bytes
KEY_LENGTH_LIMIT == 250                \* CacheManager._generate_key hashes longer keys
DEFAULT_TTL == 300                     \* InMemoryCache / RedisCache default_ttl
CLEANUP_INTERVAL == 60                 \* InMemoryRateLimiter._cleanup_interval

\* Python's None in a string-valued position; the empty string is "".
NONE == "None"
\* None in a text-valued position (texts are tuples of characters).
NONE_TEXT == <<"None">>
\* None where the schema or the column holds a float (json null for a price).
NULL_PRICE == 0 - 1000000

\* uuid4 values, in the order the tables hand them out.
UserIds == <<"u1", "u2", "u3", "u4", "u5">>
CategoryIds == <<"c1", "c2", "c3", "c4", "c5">>
ProductIds == <<"p1", "p2", "p3", "p4", "p5">>

RECURSIVE SeqToSet(_)
SeqToSet(s) == IF s = <<>> THEN {} ELSE {Head(s)} \cup SeqToSet(Tail(s))

(***************************************************************************)
(* Responses.  Every handler ends in exactly one of these.                 *)
(***************************************************************************)
NoBody == [kind |-> "none"]
\* A token that does not decode (bad signature, malformed).
BadToken == [sub |-> NONE, exp |-> 0]

Response(op, req, status, detail, body) ==
    [op |-> op, req |-> req, status |-> status, detail |-> detail, body |-> body]

InitResp == Response("startup", NoBody, 0, "", NoBody)

(***************************************************************************)
(* utils/auth.py: password hashing and tokens.                             *)
(***************************************************************************)
\* bcrypt: one-way, and verify accepts exactly the password that was hashed.
get_password_hash(password) == <<"bcrypt", password>>

verify_password(plain_password, hashed_password) ==
    hashed_password = get_password_hash(plain_password)

\* A signed token carries its subject and its expiry time.
create_access_token(sub, expires_minutes) ==
    [sub |-> sub, exp |-> now + expires_minutes * 60]

verify_token_ok_noexp(token) == TRUE

\* jwt.decode rejects a token whose exp lies before the current time.
verify_token_ok(token) == ~(token.exp < now)

\* verify_token + payload.get("sub"): 401 unless the token decodes and has a subject.
get_user_id_from_token(token) ==
    IF verify_token_ok(token) /\ token.sub # NONE
    THEN [status |-> 200, detail |-> "", user_id |-> token.sub]
    ELSE [status |-> 401, detail |-> "Could not validate credentials", user_id |-> NONE]

\* routers/auth.py get_current_user: the subject must still be a stored user.
get_current_user(token) ==
    LET t == get_user_id_from_token(token) IN
    IF t.status # 200 THEN [status |-> t.status, detail |-> t.detail, user_id |-> NONE]
    ELSE IF \E u \in users : u.id = t.user_id
         THEN [status |-> 200, detail |-> "", user_id |-> t.user_id]
         ELSE [status |-> 401, detail |-> "User not found", user_id |-> NONE]

UserById(id) == CHOOSE u \in users : u.id = id
CategoryById(id) == CHOOSE c \in categories : c.id = id
ProductById(id) == CHOOSE p \in products : p.id = id

(***************************************************************************)
(* The relational store: the constraints of models/*.py, checked at commit.*)
(***************************************************************************)
UniqueOn(rows, col) == \A a, b \in rows : a[col] = b[col] => a = b

NotNull(rows, cols) == \A r \in rows : \A c \in cols : r[c] # NONE

ForeignKeysOK(us, cs, ps) ==
    \A p \in ps : (\E u \in us : u.id = p.seller_id) /\ (\E c \in cs : c.id = p.category_id)

IntegrityOK_email_not_unique(us, cs, ps) ==
    /\ UniqueOn(us, "id") /\ UniqueOn(us, "username")
    /\ UniqueOn(cs, "id") /\ UniqueOn(cs, "name")
    /\ UniqueOn(ps, "id")
    /\ NotNull(us, {"username", "email"})
    /\ NotNull(cs, {"name"})
    /\ NotNull(ps, {"seller_id", "category_id", "status"})
    /\ \A p \in ps : p.title # NONE_TEXT
    /\ \A p \in ps : p.price # NULL_PRICE
    /\ (fk_enforced => ForeignKeysOK(us, cs, ps))

\* db.commit() raises IntegrityError exactly when this is false.
IntegrityOK(us, cs, ps) ==
    /\ UniqueOn(us, "id") /\ UniqueOn(us, "username") /\ UniqueOn(us, "email")
    /\ UniqueOn(cs, "id") /\ UniqueOn(cs, "name")
    /\ UniqueOn(ps, "id")
    /\ NotNull(us, {"username", "email"})
    /\ NotNull(cs, {"name"})
    /\ NotNull(ps, {"seller_id", "category_id", "status"})
    /\ \A p \in ps : p.title # NONE_TEXT
    /\ \A p \in ps : p.price # NULL_PRICE
    /\ (fk_enforced => ForeignKeysOK(us, cs, ps))

\* relationship(..., cascade="all, delete-orphan"): the rows deleted with a parent.
CascadeUser(user_id) == {p \in products : p.seller_id = user_id}
CascadeCategory_everything(category_id) == products
CascadeCategory(category_id) == {p \in products : p.category_id = category_id}

\* The fields the pydantic schemas declare; a body field outside the schema is
\* ignored when the body is parsed (pydantic's default for extra fields).
ProductCreateFields == {"title", "description", "price", "image_url", "status", "category_id"}
ProductUpdateFields == {"title", "description", "price", "image_url", "status", "category_id"}
CategoryUpdateFields == {"name", "description"}
UserUpdateFields == {"username", "email"}

model_dump_keeps_extra(body, fields) == body

\* schema.model_dump(exclude_unset=True): the schema's fields that the body set.
model_dump(body, fields) == [f \in (DOMAIN body) \cap fields |-> body[f]]

ApplyUpdate_resets_status(row, update_data) ==
    [f \in DOMAIN row |-> IF f \in DOMAIN update_data THEN update_data[f]
                          ELSE IF f = "status" THEN "available" ELSE row[f]]

\* setattr(row, field, value) for every field the request body set.
ApplyUpdate(row, update_data) ==
    [f \in DOMAIN row |-> IF f \in DOMAIN update_data THEN update_data[f] ELSE row[f]]

Reply(r) == resp' = r

(***************************************************************************)
(* routers/auth.py                                                         *)
(***************************************************************************)
NoUser == [id |-> NONE, username |-> NONE, email |-> NONE, password_hash |-> <<"bcrypt", NONE>>]

\* The rows the login query selects; .first() returns one of them (no ORDER BY).
get_user_by_username_or_email(username) ==
    {u \in users : u.username = username \/ u.email = username}

authenticate_user_leaky(found, password) ==
    IF found = NoUser
    THEN [status |-> 404, detail |-> "User not found", user_id |-> NONE]
    ELSE IF ~verify_password(password, found.password_hash)
         THEN [status |-> 401, detail |-> "Incorrect username or password", user_id |-> NONE]
         ELSE [status |-> 200, detail |-> "", user_id |-> found.id]

\* `found` is the row .first() returned, or NoUser when the query was empty.
authenticate_user(found, password) ==
    IF found = NoUser
    THEN [status |-> 401, detail |-> "Incorrect username or password", user_id |-> NONE]
    ELSE IF ~verify_password(password, found.password_hash)
         THEN [status |-> 401, detail |-> "Incorrect username or password", user_id |-> NONE]
         ELSE [status |-> 200, detail |-> "", user_id |-> found.id]

\* POST /auth/register
register_user(username, email, password) ==
    LET req == [username |-> username, email |-> email]
        db_user == [id |-> UserIds[next_id.user + 1], username |-> username,
                    email |-> email, password_hash |-> get_password_hash(password)]
    IN  /\ IF IntegrityOK(users \cup {db_user}, categories, products)
           THEN /\ next_id.user < MaxUsers
                /\ users' = users \cup {db_user}
                /\ next_id' = [next_id EXCEPT !.user = @ + 1]
                /\ Reply(Response("register_user", req, 201, "", [id |-> db_user.id]))
           ELSE /\ UNCHANGED <<users, next_id>>
                /\ Reply(Response("register_user", req, 400,
                                  "Username or email already registered", NoBody))
        /\ UNCHANGED <<categories, products, tokens, now, cache, fk_enforced, inflight, limiter, images>>

\* POST /auth/login
login_user(username, password) ==
    LET req == [username |-> username, password |-> password]
        matched == get_user_by_username_or_email(username)
    IN  \E found \in (IF matched = {} THEN {NoUser} ELSE matched) :
          LET a == authenticate_user(found, password)
              access_token == create_access_token(a.user_id, ACCESS_TOKEN_EXPIRE_MINUTES)
          IN  /\ IF a.status # 200
                 THEN /\ Reply(Response("login_user", req, a.status, a.detail, NoBody))
                      /\ UNCHANGED tokens
                 ELSE /\ access_token \in tokens \/ Cardinality(tokens) < MaxTokens
                      /\ tokens' = tokens \cup {access_token}
                      /\ Reply(Response("login_user", req, 200, "",
                                        [access_token |-> access_token, token_type |-> "bearer"]))
              /\ UNCHANGED <<users, categories, products, now, next_id, cache,
                             fk_enforced, inflight, limiter, images>>

\* A logout that would revoke the token presented.
logout_user_revoking(token) ==
    /\ tokens' = tokens \ {token}
    /\ Reply(Response("logout_user", [token |-> token], 200, "Successfully logged out", NoBody))
    /\ UNCHANGED <<users, categories, products, now, next_id, cache, fk_enforced, inflight,
                   limiter, images>>

\* POST /auth/logout: the handler declares no dependency, reads no credentials
\* and returns its message.
logout_user(token) ==
    /\ Reply(Response("logout_user", [token |-> token], 200, "Successfully logged out", NoBody))
    /\ UNCHANGED <<users, categories, products, tokens, now, next_id, cache, fk_enforced,
                   inflight, limiter, images>>

\* GET /auth/me
get_current_user_info(token) ==
    LET auth == get_current_user(token)
    IN  /\ IF auth.status # 200
           THEN Reply(Response("get_current_user_info", [token |-> token], auth.status,
                               auth.detail, NoBody))
           ELSE Reply(Response("get_current_user_info", [token |-> token], 200, "",
                               [id |-> auth.user_id]))
        /\ UNCHANGED <<users, categories, products, tokens, now, next_id, cache, fk_enforced,
                       inflight, limiter, images>>

(***************************************************************************)
(* routers/users.py                                                        *)
(***************************************************************************)
\* `x and x != current`: the field was sent, is neither None nor "", and differs.
Truthy(update_data, field) ==
    field \in DOMAIN update_data /\ update_data[field] \notin {NONE, ""}

\* The pre-commit duplicate check of update_user_profile for one column.
ProfileFieldTaken(current_user, user_update, field) ==
    /\ Truthy(user_update, field)
    /\ user_update[field] # current_user[field]
    /\ \E u \in users : u[field] = user_update[field] /\ u.id # current_user.id

\* PUT /users/profile
update_user_profile(token, user_update) ==
    LET req == [token |-> token, body |-> user_update]
        auth == get_current_user(token)
    IN  /\ IF auth.status # 200
           THEN /\ Reply(Response("update_user_profile", req, auth.status, auth.detail, NoBody))
                /\ UNCHANGED users
           ELSE LET current_user == UserById(auth.user_id)
                    updated == ApplyUpdate(current_user, model_dump(user_update, UserUpdateFields))
                    users2 == (users \ {current_user}) \cup {updated}
                IN  IF ProfileFieldTaken(current_user, user_update, "username")
                    THEN /\ Reply(Response("update_user_profile", req, 409,
                                           "Username already taken", NoBody))
                         /\ UNCHANGED users
                    ELSE IF ProfileFieldTaken(current_user, user_update, "email")
                    THEN /\ Reply(Response("update_user_profile", req, 409,
                                           "Email already taken", NoBody))
                         /\ UNCHANGED users
                    ELSE IF IntegrityOK(users2, categories, products)
                    THEN /\ users' = users2
                         /\ Reply(Response("update_user_profile", req, 200, "",
                                           [id |-> updated.id]))
                    ELSE /\ UNCHANGED users
                         /\ Reply(Response("update_user_profile", req, 500,
                                           "Failed to update user profile", NoBody))
        /\ UNCHANGED <<categories, products, tokens, now, next_id, cache,
                       fk_enforced, inflight, limiter, images>>

\* DELETE /users/profile
delete_user_account(token) ==
    LET req == [token |-> token]
        auth == get_current_user(token)
    IN  /\ IF auth.status # 200
           THEN /\ Reply(Response("delete_user_account", req, auth.status, auth.detail, NoBody))
                /\ UNCHANGED <<users, products>>
           ELSE LET current_user == UserById(auth.user_id)
                    users2 == users \ {current_user}
                    products2 == products \ CascadeUser(current_user.id)
                IN  IF IntegrityOK(users2, categories, products2)
                    THEN /\ users' = users2
                         /\ products' = products2
                         /\ Reply(Response("delete_user_account", req, 200, "",
                                           [id |-> current_user.id]))
                    ELSE /\ UNCHANGED <<users, products>>
                         /\ Reply(Response("delete_user_account", req, 500,
                                           "Failed to delete user account", NoBody))
        /\ UNCHANGED <<categories, tokens, now, next_id, cache, fk_enforced, inflight, limiter, images>>

(***************************************************************************)
(* routers/categories.py                                                   *)
(***************************************************************************)
CategoryNameExists_never(name) == FALSE

\* The pre-commit duplicate check of create_category.
CategoryNameExists(name) == \E c \in categories : c.name = name

\* The pre-commit duplicate check of update_category.
CategoryNameTaken(category, category_update) ==
    /\ Truthy(category_update, "name")
    /\ category_update.name # category.name
    /\ \E c \in categories : c.name = category_update.name /\ c.id # category.id

\* POST /categories/
create_category(token, name, description) ==
    LET req == [token |-> token, body |-> [name |-> name, description |-> description]]
        auth == get_current_user(token)
        category == [id |-> CategoryIds[next_id.category + 1], name |-> name,
                     description |-> description]
    IN  /\ IF auth.status # 200
           THEN /\ Reply(Response("create_category", req, auth.status, auth.detail, NoBody))
                /\ UNCHANGED <<categories, next_id>>
           ELSE IF CategoryNameExists(name)
           THEN /\ Reply(Response("create_category", req, 409,
                                  "Category with this name already exists", NoBody))
                /\ UNCHANGED <<categories, next_id>>
           ELSE IF IntegrityOK(users, categories \cup {category}, products)
           THEN /\ next_id.category < MaxCategories
                /\ categories' = categories \cup {category}
                /\ next_id' = [next_id EXCEPT !.category = @ + 1]
                /\ Reply(Response("create_category", req, 201, "", [id |-> category.id]))
           ELSE /\ UNCHANGED <<categories, next_id>>
                /\ Reply(Response("create_category", req, 500,
                                  "Failed to create category", NoBody))
        /\ UNCHANGED <<users, products, tokens, now, cache, fk_enforced, inflight, limiter, images>>

\* PUT /categories/{category_id}
update_category(token, category_id, category_update) ==
    LET req == [token |-> token, id |-> category_id, body |-> category_update]
        auth == get_current_user(token)
    IN  /\ IF auth.status # 200
           THEN /\ Reply(Response("update_category", req, auth.status, auth.detail, NoBody))
                /\ UNCHANGED categories
           ELSE IF ~\E c \in categories : c.id = category_id
           THEN /\ Reply(Response("update_category", req, 404, "Category not found", NoBody))
                /\ UNCHANGED categories
           ELSE LET category == CategoryById(category_id)
                    updated == ApplyUpdate(category, model_dump(category_update, CategoryUpdateFields))
                    categories2 == (categories \ {category}) \cup {updated}
                IN  IF CategoryNameTaken(category, category_update)
                    THEN /\ Reply(Response("update_category", req, 409,
                                           "Category with this name already exists", NoBody))
                         /\ UNCHANGED categories
                    ELSE IF IntegrityOK(users, categories2, products)
                    THEN /\ categories' = categories2
                         /\ Reply(Response("update_category", req, 200, "", [id |-> category_id]))
                    ELSE /\ UNCHANGED categories
                         /\ Reply(Response("update_category", req, 500,
                                           "Failed to update category", NoBody))
        /\ UNCHANGED <<users, products, tokens, now, next_id, cache, fk_enforced, inflight, limiter, images>>

\* DELETE /categories/{category_id}
delete_category(token, category_id) ==
    LET req == [token |-> token, id |-> category_id]
        auth == get_current_user(token)
    IN  /\ IF auth.status # 200
           THEN /\ Reply(Response("delete_category", req, auth.status, auth.detail, NoBody))
                /\ UNCHANGED <<categories, products>>
           ELSE IF ~\E c \in categories : c.id = category_id
           THEN /\ Reply(Response("delete_category", req, 404, "Category not found", NoBody))
                /\ UNCHANGED <<categories, products>>
           ELSE LET category == CategoryById(category_id)
                    categories2 == categories \ {category}
                    products2 == products \ CascadeCategory(category_id)
                IN  IF IntegrityOK(users, categories2, products2)
                    THEN /\ categories' = categories2
                         /\ products' = products2
                         /\ Reply(Response("delete_category", req, 200, "",
                                           [id |-> category_id,
                                            deleted_products_count |->
                                                Cardinality(CascadeCategory(category_id))]))
                    ELSE /\ UNCHANGED <<categories, products>>
                         /\ Reply(Response("delete_category", req, 500,
                                           "Failed to delete category", NoBody))
        /\ UNCHANGED <<users, tokens, now, next_id, cache, fk_enforced, inflight, limiter, images>>

(***************************************************************************)
(* utils/cache.py: InMemoryCache, the backend cache_manager uses.          *)
(***************************************************************************)
\* An expiry test that never finds an entry expired.
_is_expired_never(entry) == FALSE

\* InMemoryCache._is_expired
_is_expired(entry) == now > entry.expires_at

\* InMemoryCache.delete: the cache after delete(key).
cache_delete(c, key) == [k \in (DOMAIN c) \ {key} |-> c[k]]

\* `ttl or self.default_ttl`: no ttl and a ttl of 0 both give the default.
EffectiveTtl(ttl) == IF ttl = 0 THEN DEFAULT_TTL ELSE ttl

\* InMemoryCache.set: the cache after set(key, value, ttl).
cache_set(c, key, value, ttl) ==
    [k \in (DOMAIN c) \cup {key} |->
        IF k = key THEN [value |-> value, expires_at |-> now + EffectiveTtl(ttl)] ELSE c[k]]

\* InMemoryCache.get: what get(key) returns (NoBody for None), the branch it
\* took, and the cache it leaves: an expired entry is deleted by the access.
cache_get(c, key) ==
    IF key \notin DOMAIN c THEN [value |-> NoBody, branch |-> "miss", cache |-> c]
    ELSE IF _is_expired(c[key])
    THEN [value |-> NoBody, branch |-> "expired", cache |-> cache_delete(c, key)]
    ELSE [value |-> c[key].value, branch |-> "hit", cache |-> c]

\* InMemoryCache.clear
cache_clear(c) == [k \in {} |-> c[k]]

\* The keys f"products:{product_id}" and f"products:details:{product_id}".
ProductKey(product_id) == <<"products", ":", product_id>>
ProductDetailsKey(product_id) == <<"products", ":", "details", ":", product_id>>

\* The cache after invalidate_product_cache(product_id): with a product_id the
\* two keys above are deleted, without one nothing is (it only logs).
invalidate_product_cache(c, product_id) ==
    IF product_id # NONE
    THEN cache_delete(cache_delete(c, ProductKey(product_id)), ProductDetailsKey(product_id))
    ELSE c

(***************************************************************************)
(* utils/cache.py: RedisCache, the backend of a CacheManager given a       *)
(* redis_url.  `fails` says the server cannot be reached (redis.RedisError *)
(* is raised by the client call).                                          *)
(***************************************************************************)
\* What a cache method did: returned a value, or raised the named exception.
Returned(value, c) == [raised |-> "", value |-> value, cache |-> c]
Raised(exception, c) == [raised |-> exception, value |-> NoBody, cache |-> c]

\* The server drops a key ttl seconds after setex.
RedisHolds(c, key) == key \in DOMAIN c /\ now < c[key].expires_at

\* json.loads(json.dumps(value, default=str)): a response object is stored as
\* its str() and comes back as that text; plain values come back as they were.
JsonRoundTrip(value) ==
    IF "products" \in DOMAIN value THEN [kind |-> "str", of |-> value] ELSE value

\* RedisCache.get: `except (redis.RedisError, json.JSONDecodeError)` returns None.
redis_get(c, key, fails) ==
    IF fails THEN Returned(NoBody, c)
    ELSE IF RedisHolds(c, key) THEN Returned(c[key].value, c)
    ELSE Returned(NoBody, c)

\* RedisCache.set: its except clause names json.JSONEncodeError, which the json
\* module does not have, so handling any exception of the try raises AttributeError.
redis_set(c, key, value, ttl, fails) ==
    IF fails THEN Raised("AttributeError", c)
    ELSE Returned(NoBody,
                  [k \in (DOMAIN c) \cup {key} |->
                      IF k = key THEN [value |-> JsonRoundTrip(value),
                                       expires_at |-> now + EffectiveTtl(ttl)]
                      ELSE c[k]])

\* RedisCache.delete: `except redis.RedisError` returns False.
redis_delete(c, key, fails) ==
    IF fails THEN Returned(NoBody, c) ELSE Returned(NoBody, cache_delete(c, key))

\* RedisCache.clear: `except redis.RedisError` logs.
redis_clear(c, fails) ==
    IF fails THEN Returned(NoBody, c) ELSE Returned(NoBody, cache_clear(c))

(***************************************************************************)
(* routers/products.py                                                     *)
(***************************************************************************)
Statuses == {"available", "sold", "pending"}

\* schemas/product.py ProductBase / ProductCreate: what passes validation.
ValidProductCreate(product_data) ==
    /\ product_data.title # NONE_TEXT /\ Len(product_data.title) >= 1
    /\ product_data.price > 0
    /\ product_data.status \in Statuses
    /\ product_data.category_id # NONE

ValidProductUpdate_any_price(product_update) ==
    /\ ("title" \in DOMAIN product_update /\ product_update.title # NONE_TEXT)
          => Len(product_update.title) >= 1
    /\ ("status" \in DOMAIN product_update /\ product_update.status # NONE)
          => product_update.status \in Statuses

\* schemas/product.py ProductUpdate: every field is optional and may be null.
ValidProductUpdate(product_update) ==
    /\ ("title" \in DOMAIN product_update /\ product_update.title # NONE_TEXT)
          => Len(product_update.title) >= 1
    /\ ("price" \in DOMAIN product_update /\ product_update.price # NULL_PRICE)
          => product_update.price > 0
    /\ ("status" \in DOMAIN product_update /\ product_update.status # NONE)
          => product_update.status \in Statuses

IsOwner_anyone(product, user_id) == TRUE

\* update_product / delete_product: `product.seller_id != current_user.id` is false.
IsOwner(product, user_id) == product.seller_id = user_id

\* update_product: the new category is looked up only when it is truthy and differs.
CategoryCheckFails(product, product_update) ==
    /\ Truthy(product_update, "category_id")
    /\ product_update.category_id # product.category_id
    /\ ~\E c \in categories : c.id = product_update.category_id

\* POST /products/
create_product(token, product_data) ==
    LET req == [token |-> token, body |-> product_data]
        auth == get_current_user(token)
        data == model_dump(product_data, ProductCreateFields)
        product == [id |-> ProductIds[next_id.product + 1],
                    title |-> data.title,
                    description |-> data.description,
                    price |-> data.price,
                    status |-> data.status,
                    category_id |-> data.category_id,
                    seller_id |-> auth.user_id,
                    created_at |-> now]
    IN  /\ IF auth.status # 200
           THEN /\ Reply(Response("create_product", req, auth.status, auth.detail, NoBody))
                /\ UNCHANGED <<products, next_id, cache>>
           ELSE IF ~ValidProductCreate(product_data)
           THEN /\ Reply(Response("create_product", req, 422, "validation", NoBody))
                /\ UNCHANGED <<products, next_id, cache>>
           ELSE IF ~\E c \in categories : c.id = product_data.category_id
           THEN /\ Reply(Response("create_product", req, 404, "Category not found", NoBody))
                /\ UNCHANGED <<products, next_id, cache>>
           ELSE IF IntegrityOK(users, categories, products \cup {product})
           THEN /\ next_id.product < MaxProducts
                /\ products' = products \cup {product}
                /\ next_id' = [next_id EXCEPT !.product = @ + 1]
                /\ cache' = invalidate_product_cache(cache, NONE)
                /\ Reply(Response("create_product", req, 201, "", [id |-> product.id]))
           ELSE /\ UNCHANGED <<products, next_id, cache>>
                /\ Reply(Response("create_product", req, 500,
                                  "Failed to create product", NoBody))
        /\ UNCHANGED <<users, categories, tokens, now, fk_enforced, inflight, limiter, images>>

\* PUT /products/{product_id}
update_product(token, product_id, product_update) ==
    LET req == [token |-> token, id |-> product_id, body |-> product_update]
        auth == get_current_user(token)
    IN  /\ IF auth.status # 200
           THEN /\ Reply(Response("update_product", req, auth.status, auth.detail, NoBody))
                /\ UNCHANGED <<products, cache>>
           ELSE IF ~ValidProductUpdate(product_update)
           THEN /\ Reply(Response("update_product", req, 422, "validation", NoBody))
                /\ UNCHANGED <<products, cache>>
           ELSE IF ~\E p \in products : p.id = product_id
           THEN /\ Reply(Response("update_product", req, 404, "Product not found", NoBody))
                /\ UNCHANGED <<products, cache>>
           ELSE LET product == ProductById(product_id)
                    updated == ApplyUpdate(product, model_dump(product_update, ProductUpdateFields))
                    products2 == (products \ {product}) \cup {updated}
                IN  IF ~IsOwner(product, auth.user_id)
                    THEN /\ Reply(Response("update_product", req, 403,
                                           "You can only update your own products", NoBody))
                         /\ UNCHANGED <<products, cache>>
                    ELSE IF CategoryCheckFails(product, product_update)
                    THEN /\ Reply(Response("update_product", req, 404,
                                           "Category not found", NoBody))
                         /\ UNCHANGED <<products, cache>>
                    ELSE IF IntegrityOK(users, categories, products2)
                    THEN /\ products' = products2
                         /\ cache' = invalidate_product_cache(cache, product_id)
                         /\ Reply(Response("update_product", req, 200, "", [id |-> product_id]))
                    ELSE /\ UNCHANGED <<products, cache>>
                         /\ Reply(Response("update_product", req, 500,
                                           "Failed to update product", NoBody))
        /\ UNCHANGED <<users, categories, tokens, now, next_id, fk_enforced, inflight, limiter, images>>

\* DELETE /products/{product_id}
delete_product(token, product_id) ==
    LET req == [token |-> token, id |-> product_id]
        auth == get_current_user(token)
    IN  /\ IF auth.status # 200
           THEN /\ Reply(Response("delete_product", req, auth.status, auth.detail, NoBody))
                /\ UNCHANGED products
           ELSE IF ~\E p \in products : p.id = product_id
           THEN /\ Reply(Response("delete_product", req, 404, "Product not found", NoBody))
                /\ UNCHANGED products
           ELSE LET product == ProductById(product_id)
                    products2 == products \ {product}
                IN  IF ~IsOwner(product, auth.user_id)
                    THEN /\ Reply(Response("delete_product", req, 403,
                                           "You can only delete your own products", NoBody))
                         /\ UNCHANGED products
                    ELSE IF IntegrityOK(users, categories, products2)
                    THEN /\ products' = products2
                         /\ Reply(Response("delete_product", req, 200, "", [id |-> product_id]))
                    ELSE /\ UNCHANGED products
                         /\ Reply(Response("delete_product", req, 500,
                                           "Failed to delete product", NoBody))
        /\ UNCHANGED <<users, categories, tokens, now, next_id, cache, fk_enforced, inflight, limiter, images>>

\* GET /products/{product_id}
get_product(product_id) ==
    /\ IF \E p \in products : p.id = product_id
       THEN Reply(Response("get_product", [id |-> product_id], 200, "", [id |-> product_id]))
       ELSE Reply(Response("get_product", [id |-> product_id], 404, "Product not found", NoBody))
    /\ UNCHANGED <<users, categories, products, tokens, now, next_id, cache,
                   fk_enforced, inflight, limiter, images>>

(***************************************************************************)
(* utils/query_optimizer.py and GET /products/                             *)
(***************************************************************************)
\* No value was given for a numeric query parameter.
NO_PRICE == 0 - 1

UPPER == <<"A", "B", "C", "D", "E", "F", "G", "H", "I", "J", "K", "L", "M",
           "N", "O", "P", "Q", "R", "S", "T", "U", "V", "W", "X", "Y", "Z">>
LOWER == <<"a", "b", "c", "d", "e", "f", "g", "h", "i", "j", "k", "l", "m",
           "n", "o", "p", "q", "r", "s", "t", "u", "v", "w", "x", "y", "z">>

\* lower() on one character and on a text.
LowerChar(ch) ==
    IF \E i \in 1..26 : UPPER[i] = ch
    THEN LOWER[CHOOSE i \in 1..26 : UPPER[i] = ch]
    ELSE ch
Lower(text) == [i \in 1..Len(text) |-> LowerChar(text[i])]

\* SQL LIKE: % matches any run of characters, _ matches any one character.
RECURSIVE Like(_, _)
Like(text, pattern) ==
    IF pattern = <<>> THEN text = <<>>
    ELSE IF Head(pattern) = "%"
         THEN Like(text, Tail(pattern)) \/ (text # <<>> /\ Like(Tail(text), pattern))
         ELSE /\ text # <<>>
              /\ (Head(pattern) = "_" \/ Head(pattern) = Head(text))
              /\ Like(Tail(text), Tail(pattern))

\* column.ilike(pattern): lower(column) LIKE lower(pattern); NULL never matches.
ilike(text, pattern) == text # NONE_TEXT /\ Like(Lower(text), Lower(pattern))

\* The WHERE clause get_products_with_pagination builds.
ProductFilter(p, category_id, min_price, max_price, search, status) ==
    /\ p.status = status
    /\ (category_id \notin {NONE, ""}) => p.category_id = category_id
    /\ min_price # NO_PRICE => p.price >= min_price
    /\ max_price # NO_PRICE => p.price <= max_price
    /\ (search \notin {NONE_TEXT, <<>>}) => ilike(p.title, <<"%">> \o search \o <<"%">>)

\* Characters in the order the engine compares them (ASCII).
CharCode(ch) ==
    IF \E i \in 1..26 : UPPER[i] = ch THEN CHOOSE i \in 1..26 : UPPER[i] = ch
    ELSE IF ch = "_" THEN 27
    ELSE IF \E i \in 1..26 : LOWER[i] = ch THEN 27 + CHOOSE i \in 1..26 : LOWER[i] = ch
    ELSE 0

RECURSIVE TextLeq(_, _)
TextLeq(a, b) ==
    IF a = <<>> THEN TRUE
    ELSE IF b = <<>> THEN FALSE
    ELSE IF CharCode(Head(a)) # CharCode(Head(b)) THEN CharCode(Head(a)) < CharCode(Head(b))
    ELSE TextLeq(Tail(a), Tail(b))

\* The place of an id, and of a status, in the engine's text order.
IdRank(id) == CHOOSE i \in 1..Len(ProductIds) : ProductIds[i] = id
StatusRank(status) ==
    IF status = "available" THEN 1 ELSE IF status = "pending" THEN 2 ELSE 3

\* getattr(Product, sort_by, Product.created_at), as an order on rows: any
\* attribute of the Product class is taken, created_at only when there is none.
SortLeq(a, b, sort_by) ==
    IF sort_by = "price" THEN a.price <= b.price
    ELSE IF sort_by = "title" THEN TextLeq(a.title, b.title)
    ELSE IF sort_by = "id" THEN IdRank(a.id) <= IdRank(b.id)
    ELSE IF sort_by = "status" THEN StatusRank(a.status) <= StatusRank(b.status)
    ELSE a.created_at <= b.created_at

\* The orders ORDER BY may return: rows with equal keys come in any order.
OrderedBy(rows, sort_by, sort_order) ==
    LET n == Cardinality(rows) IN
    {s \in [1..n -> rows] :
        /\ \A i, j \in 1..n : i # j => s[i] # s[j]
        /\ \A i, j \in 1..n : i < j =>
              IF sort_order = "desc" THEN SortLeq(s[j], s[i], sort_by)
              ELSE SortLeq(s[i], s[j], sort_by)}

\* A pagination that ignores the offset.
Page_ignores_skip(ordered, skip, limit) ==
    SubSeq(ordered, 1, IF limit < Len(ordered) THEN limit ELSE Len(ordered))

\* query.offset(skip).limit(limit) on an ordered result.
Page(ordered, skip, limit) ==
    SubSeq(ordered, skip + 1, IF skip + limit < Len(ordered) THEN skip + limit ELSE Len(ordered))

\* OptimizedQueries.get_products_with_pagination: the (products, total_count) it may return.
get_products_with_pagination(skip, limit, category_id, min_price, max_price, search, status, sort_by, sort_order) ==
    LET matching == {p \in products :
                        ProductFilter(p, category_id, min_price, max_price, search, status)}
    IN  {[products |-> Page(ordered, skip, limit), total_count |-> Cardinality(matching)] :
            ordered \in OrderedBy(matching, sort_by, sort_order)}

\* Query("available", ...): the status parameter when the request gives none.
StatusParameter(status) == IF status = NONE THEN "available" ELSE status

\* The status get_products hands to the query.
StatusArgument(status) == IF status # "all" THEN status ELSE "available"

\* The body of get_products for query parameters q: every ProductListResponse it may build.
ProductListings(q) ==
    LET skip == (q.page - 1) * q.per_page
        found == get_products_with_pagination(skip, q.per_page, q.category_id, q.min_price,
                                              q.max_price, q.search,
                                              StatusArgument(StatusParameter(q.status)),
                                              q.sort_by, q.sort_order)
    IN  {[products |-> f.products, total |-> f.total_count, page |-> q.page,
          per_page |-> q.per_page,
          total_pages |-> (f.total_count + q.per_page - 1) \div q.per_page] : f \in found}

\* Strings are tuples of symbols: a symbol is one character, or a whole word
\* that holds no ":" and no "=" (an identifier, a uuid, a keyword).
DIGITS == <<"0", "1", "2", "3", "4", "5", "6", "7", "8", "9">>

\* str(n) for an int n >= 0, and str(x) for a float x >= 0 with no fraction.
RECURSIVE IntText(_)
IntText(n) ==
    IF n < 10 THEN <<DIGITS[n + 1]>> ELSE IntText(n \div 10) \o <<DIGITS[(n % 10) + 1]>>
FloatText(x) == IF x = NO_PRICE THEN <<"None">> ELSE IntText(x) \o <<".", "0">>

\* sep.join(parts[i:]) and sep.join(parts)
RECURSIVE JoinFrom(_, _, _)
JoinFrom(parts, sep, i) ==
    IF i > Len(parts) THEN <<>>
    ELSE IF i = Len(parts) THEN parts[i]
    ELSE parts[i] \o sep \o JoinFrom(parts, sep, i + 1)
Join(parts, sep) == JoinFrom(parts, sep, 1)

\* hashlib.md5(text.encode()).hexdigest(), as a digest no two texts share.
md5(text) == <<"md5(">> \o text \o <<")">>

\* CacheManager._generate_key(prefix, *args, **kwargs): args is the tuple of
\* str(arg), kwargs the tuple of the pairs (k, str(v)) in sorted(kwargs.items())
\* order.
_generate_key(prefix, args, kwargs) ==
    LET key_parts == args \o [i \in 1..Len(kwargs) |-> kwargs[i].k \o <<"=">> \o kwargs[i].v]
        key_string == prefix \o <<":">> \o Join(key_parts, <<":">>)
    IN  IF Len(key_string) > KEY_LENGTH_LIMIT
        THEN prefix \o <<":", "hash", ":">> \o md5(key_string)
        ELSE key_string

\* The keyword arguments FastAPI passes to get_products, sorted by name, each
\* with the str() of its value; db is the text of the request's session object.
QueryKwargs(q, db) ==
    <<[k |-> <<"category_id">>, v |-> <<q.category_id>>],
      [k |-> <<"db">>, v |-> <<db>>],
      [k |-> <<"max_price">>, v |-> FloatText(q.max_price)],
      [k |-> <<"min_price">>, v |-> FloatText(q.min_price)],
      [k |-> <<"page">>, v |-> IntText(q.page)],
      [k |-> <<"per_page">>, v |-> IntText(q.per_page)],
      [k |-> <<"search">>, v |-> q.search],
      [k |-> <<"seller_id">>, v |-> <<q.seller_id>>],
      [k |-> <<"sort_by">>, v |-> <<q.sort_by>>],
      [k |-> <<"sort_order">>, v |-> <<q.sort_order>>],
      [k |-> <<"status">>, v |-> <<StatusParameter(q.status)>>]>>

\* GET /products/ behind @cache_products(ttl=300): `cached` answers from the
\* cache when the key holds an unexpired entry, and otherwise runs the handler
\* and stores its result.  `db` is the text of the session object in the key.
get_products(q, db) ==
    \E cache_key \in {_generate_key(<<"products">>, <<>>, QueryKwargs(q, db))} :
    LET hit == cache_key \in DOMAIN cache /\ ~_is_expired(cache[cache_key])
        evicted == IF cache_key \in DOMAIN cache THEN cache_delete(cache, cache_key) ELSE cache
    IN  /\ IF hit
           THEN /\ Reply(Response("get_products", q, 200, "", cache[cache_key].value))
                /\ UNCHANGED cache
           ELSE /\ Cardinality(DOMAIN evicted) < MaxCached
                /\ \E result \in ProductListings(q) :
                      /\ cache' = cache_set(evicted, cache_key, result, PRODUCTS_TTL)
                      /\ Reply(Response("get_products", q, 200, "", result))
        /\ UNCHANGED <<users, categories, products, tokens, now, next_id,
                       fk_enforced, inflight, limiter, images>>

\* wrapper(*args, **kwargs) of cached(prefix, ttl)(func), over the in-memory
\* backend: the cached value when the key holds one, else func's result, which
\* is stored.  `result` is what func(*args, **kwargs) returns.
cached(prefix, ttl, args, kwargs, result) ==
    \E cache_key \in {_generate_key(prefix, args, kwargs)} :
    LET got == cache_get(cache, cache_key)
        req == [prefix |-> prefix, args |-> args, kwargs |-> kwargs]
    IN  /\ IF got.value # NoBody
           THEN /\ cache' = got.cache
                /\ Reply(Response("cached", req, 200, "", got.value))
           ELSE /\ Cardinality(DOMAIN got.cache) < MaxCached
                /\ cache' = cache_set(got.cache, cache_key, result, ttl)
                /\ Reply(Response("cached", req, 200, "", result))
        /\ UNCHANGED <<users, categories, products, tokens, now, next_id,
                       fk_enforced, inflight, limiter, images>>

(***************************************************************************)
(* routers/uploads.py.  A file name is the sequence of its pieces, "." and  *)
(* "_" being pieces of their own.                                          *)
(***************************************************************************)
ALLOWED_EXTENSIONS ==
    {<<".", "jpg">>, <<".", "jpeg">>, <<".", "png">>, <<".", "gif">>, <<".", "webp">>}

\* The keys of IMAGE_SIZES, in the order the dict is iterated.
IMAGE_SIZES == <<"thumbnail", "medium", "large">>

RECURSIVE LastDot(_, _)
LastDot(filename, i) ==
    IF i = 0 \/ filename[i] = "." THEN i ELSE LastDot(filename, i - 1)

\* str.lower() on one piece.
lower(piece) ==
    CASE piece = "JPG" -> "jpg"
      [] piece = "PNG" -> "png"
      [] OTHER -> piece

\* Path(filename).suffix.lower()
suffix_lower(filename) ==
    LET d == LastDot(filename, Len(filename))
    IN  IF d <= 1 \/ d = Len(filename) THEN <<>>
        ELSE [i \in 1..(Len(filename) - d + 1) |-> lower(filename[d + i - 1])]

\* filename.rsplit('.', 1)
rsplit(filename) ==
    LET d == LastDot(filename, Len(filename))
    IN  IF d = 0 THEN <<filename>>
        ELSE <<SubSeq(filename, 1, d - 1), SubSeq(filename, d + 1, Len(filename))>>

\* f"{name_parts[0]}_{size_name}.{name_parts[1]}"
resized_filename(filename, size_name) ==
    LET name_parts == rsplit(filename)
    IN  name_parts[1] \o <<"_", size_name, ".">> \o name_parts[2]

\* validate_image_file(file): the HTTPException it raises, if any.
validate_image_file(file) ==
    IF suffix_lower(file.filename) \notin ALLOWED_EXTENSIONS
    THEN [status |-> 400, detail |-> "File type not allowed"]
    ELSE IF file.size > MAX_FILE_SIZE
    THEN [status |-> 400, detail |-> "File size too large"]
    ELSE [status |-> 200, detail |-> ""]

\* The resized files written before the step `fault` of the loop over
\* IMAGE_SIZES raises; all of them when no step of the loop does.
ResizedBefore(filename, fault) ==
    {resized_filename(filename, IMAGE_SIZES[i]) :
        i \in {i \in 1..Len(IMAGE_SIZES) :
                  \A j \in 1..i : IMAGE_SIZES[j] # fault}}

\* save_image_with_sizes(file, filename) on a directory holding `files`.
\* `fault` is the step that raises: "open" and "write" the saving of the
\* original, "Image.open" the decoding, a size name the resizing or saving of
\* that size (a save that raises leaves no file of its own), "none" no step.
save_image_with_sizes(files, PIL_AVAILABLE, filename, fault) ==
    IF fault = "open"
    THEN [files |-> files, raised |-> "OSError", status |-> 500, detail |-> ""]
    ELSE IF fault = "write"
    THEN [files |-> files \cup {filename}, raised |-> "OSError", status |-> 500,
          detail |-> ""]
    ELSE IF ~PIL_AVAILABLE
    THEN [files |-> files \cup {filename}, raised |-> "", status |-> 200, detail |-> ""]
    ELSE IF fault = "Image.open"
    THEN [files |-> files \ {filename}, raised |-> "HTTPException", status |-> 500,
          detail |-> "Failed to process image"]
    ELSE IF \E i \in 1..Len(IMAGE_SIZES) : IMAGE_SIZES[i] = fault
    THEN [files |-> (files \cup ResizedBefore(filename, fault)) \ {filename},
          raised |-> "HTTPException", status |-> 500,
          detail |-> "Failed to process image"]
    ELSE [files |-> files \cup {filename} \cup ResizedBefore(filename, fault),
          raised |-> "", status |-> 200, detail |-> ""]

\* POST /upload/image
upload_image(token, file, fault) ==
    LET req == [token |-> token, file |-> file, fault |-> fault]
        auth == get_current_user(token)
        valid == validate_image_file(file)
        unique_filename == <<"uuid">> \o IntText(images.uuids) \o suffix_lower(file.filename)
        saved == save_image_with_sizes(images.files, images.PIL_AVAILABLE,
                                       unique_filename, fault)
    IN  /\ IF auth.status # 200
           THEN /\ Reply(Response("upload_image", req, auth.status, auth.detail, NoBody))
                /\ UNCHANGED images
           ELSE IF valid.status # 200
           THEN /\ Reply(Response("upload_image", req, valid.status, valid.detail, NoBody))
                /\ UNCHANGED images
           ELSE /\ images.uuids < MaxUploads
                /\ images' = [images EXCEPT !.files = saved.files, !.uuids = @ + 1]
                /\ IF saved.raised = "HTTPException"
                   THEN Reply(Response("upload_image", req, saved.status, saved.detail,
                                       NoBody))
                   ELSE IF saved.raised # ""
                   THEN Reply(Response("upload_image", req, 500, "Failed to upload image",
                                       NoBody))
                   ELSE Reply(Response("upload_image", req, 200, "",
                                       [filename |-> unique_filename]))
        /\ UNCHANGED <<users, categories, products, tokens, now, next_id, cache,
                       fk_enforced, inflight, limiter>>

\* DELETE /upload/images/{filename}
delete_image(token, filename) ==
    LET req == [token |-> token, filename |-> filename]
        auth == get_current_user(token)
        name_parts == rsplit(filename)
        files_to_delete ==
            ({filename} \cup {resized_filename(filename, IMAGE_SIZES[i]) :
                                 i \in 1..Len(IMAGE_SIZES)}) \cap images.files
    IN  /\ IF auth.status # 200
           THEN /\ Reply(Response("delete_image", req, auth.status, auth.detail, NoBody))
                /\ UNCHANGED images
           ELSE IF Len(name_parts) # 2
           THEN /\ Reply(Response("delete_image", req, 400, "Invalid filename format",
                                  NoBody))
                /\ UNCHANGED images
           ELSE IF files_to_delete = {}
           THEN /\ Reply(Response("delete_image", req, 404, "Image not found", NoBody))
                /\ UNCHANGED images
           ELSE /\ images' = [images EXCEPT !.files = @ \ files_to_delete]
                /\ Reply(Response("delete_image", req, 200, "", [filename |-> filename]))
        /\ UNCHANGED <<users, categories, products, tokens, now, next_id, cache,
                       fk_enforced, inflight, limiter>>

\* Time passes.
Tick ==
    /\ now < MaxTicks * TickStep
    /\ now' = now + TickStep
    /\ UNCHANGED <<users, categories, products, tokens, next_id, cache, resp,
                   fk_enforced, inflight, limiter, images>>

(***************************************************************************)
(* Spec: the store behind the product and category routes.                 *)
(***************************************************************************)
StoreAccounts == {[username |-> "amy", email |-> "amy@x.io", password |-> "pw1"],
                  [username |-> "bob", email |-> "bob@x.io", password |-> "pw1"]}
StoreCategoryNames == {"Books", "Toys"}
StoreCategoryRefs == {CategoryIds[i] : i \in 1..MaxCategories}
StoreProductRefs == {ProductIds[i] : i \in 1..MaxProducts}
StoreProductData ==
    {[title |-> <<"G", "o">>, description |-> NONE_TEXT, price |-> 1,
      status |-> "available", category_id |-> c] : c \in StoreCategoryRefs}
StoreProductUpdates == {[category_id |-> c] : c \in StoreCategoryRefs \cup {"", NONE}}

\* What a client can put in the Authorization header: a token it was issued.
Presentable == tokens

\* InMemoryRateLimiter.__init__ (the process starts at time 0).  `allowed` is
\* not a field of the class: it records, for the properties, when each key was
\* let through.
EmptyLimiter == [_requests |-> <<>>, _last_cleanup |-> 0, allowed |-> <<>>]

\* IMAGES_DIRECTORY after mkdir, with Pillow importable.
EmptyDirectory == [files |-> {}, uuids |-> 0, PIL_AVAILABLE |-> TRUE]

EmptyCache == [k \in {} |-> [value |-> NoBody, expires_at |-> 0]]

Init ==
    /\ users = {} /\ categories = {} /\ products = {}
    /\ tokens = {}
    /\ now = 0
    /\ next_id = [user |-> 0, category |-> 0, product |-> 0]
    /\ cache = EmptyCache
    /\ resp = InitResp
    /\ fk_enforced \in BOOLEAN
    /\ inflight = {}
    /\ limiter = EmptyLimiter
    /\ images = EmptyDirectory

Register == \E a \in StoreAccounts : register_user(a.username, a.email, a.password)
Login == \E a \in StoreAccounts : login_user(a.username, a.password)
DeleteAccount == \E t \in Presentable : delete_user_account(t)
CreateCategory == \E t \in Presentable, n \in StoreCategoryNames : create_category(t, n, NONE)
DeleteCategory == \E t \in Presentable, c \in StoreCategoryRefs : delete_category(t, c)
CreateProduct == \E t \in Presentable, d \in StoreProductData : create_product(t, d)
UpdateProduct ==
    \E t \in Presentable, p \in StoreProductRefs, u \in StoreProductUpdates :
        update_product(t, p, u)
DeleteProduct == \E t \in Presentable, p \in StoreProductRefs : delete_product(t, p)
GetProduct == \E p \in StoreProductRefs : get_product(p)

Next ==
    \/ Register \/ Login \/ DeleteAccount
    \/ CreateCategory \/ DeleteCategory
    \/ CreateProduct \/ UpdateProduct \/ DeleteProduct \/ GetProduct

Spec == Init /\ [][Next]_vars

(***************************************************************************)
(* SpecAuth: accounts, login, tokens and their expiry.                     *)
(***************************************************************************)
AuthUsernames == {"amy", "bob@x.io"}
AuthEmails == {"amy@x.io", "bob@x.io"}
AuthPasswords == {"pw1", "pw2"}
AuthIdentifiers == AuthUsernames \cup AuthEmails \cup {"zed"}
AuthProfileUpdates ==
    {[username |-> n] : n \in AuthUsernames} \cup {[email |-> e] : e \in AuthEmails}

\* Here a client may also present a token that does not decode.
PresentableAuth == tokens \cup {BadToken}

InitAuth == Init /\ fk_enforced = TRUE

RegisterAuth ==
    \E n \in AuthUsernames, e \in AuthEmails, p \in AuthPasswords : register_user(n, e, p)
LoginAuth == \E i \in AuthIdentifiers, p \in AuthPasswords : login_user(i, p)
UpdateProfileAuth ==
    \E t \in PresentableAuth, u \in AuthProfileUpdates : update_user_profile(t, u)
DeleteAccountAuth == \E t \in PresentableAuth : delete_user_account(t)
CreateCategoryAuth == \E t \in PresentableAuth : create_category(t, "Books", NONE)

LogoutAuth == \E t \in PresentableAuth : logout_user(t)
MeAuth == \E t \in PresentableAuth : get_current_user_info(t)

NextAuth ==
    \/ RegisterAuth \/ LoginAuth \/ UpdateProfileAuth \/ DeleteAccountAuth
    \/ CreateCategoryAuth \/ LogoutAuth \/ MeAuth \/ Tick

SpecAuth == InitAuth /\ [][NextAuth]_vars

(***************************************************************************)
(* SpecSearch: GET /products/ over a populated store.                      *)
(***************************************************************************)
SearchProducts == 2    \* products in the store

SearchTitles == {<<"G", "o">>, <<"A", "p">>}
SearchDescriptions == {NONE_TEXT, <<"g", "o">>}
SearchStrings == {NONE_TEXT, <<"g", "o">>, <<"G", "O">>, <<"_", "o">>}
SearchPrices == {10, 20}
SearchDb == {"Session@0x7f01"}

Seller == [id |-> "u1", username |-> "amy", email |-> "amy@x.io",
           password_hash |-> get_password_hash("pw1")]
Books == [id |-> "c1", name |-> "Books", description |-> NONE]

SearchRows ==
    [title : SearchTitles, description : SearchDescriptions, status : Statuses,
     price : SearchPrices]

SearchQueries ==
    [page : {1, 2}, per_page : {1, 10}, category_id : {NONE}, min_price : {NO_PRICE},
     max_price : {NO_PRICE}, status : {NONE, "sold", "all"}, search : SearchStrings,
     seller_id : {NONE}, sort_by : {"created_at", "price"}, sort_order : {"desc"}]

InitSearch ==
    /\ users = {Seller} /\ categories = {Books}
    /\ \E rows \in [1..SearchProducts -> SearchRows] :
          products = {[id |-> ProductIds[i], title |-> rows[i].title,
                       description |-> rows[i].description, price |-> rows[i].price,
                       status |-> rows[i].status, category_id |-> Books.id,
                       seller_id |-> Seller.id, created_at |-> 0] : i \in 1..SearchProducts}
    /\ tokens = {}
    /\ now = 0
    /\ next_id = [user |-> 1, category |-> 1, product |-> SearchProducts]
    /\ cache = EmptyCache
    /\ resp = InitResp
    /\ fk_enforced = TRUE
    /\ inflight = {}
    /\ limiter = EmptyLimiter
    /\ images = EmptyDirectory

GetProductsSearch == \E q \in SearchQueries, db \in SearchDb : get_products(q, db)

NextSearch == GetProductsSearch

SpecSearch == InitSearch /\ [][NextSearch]_vars

(***************************************************************************)
(* SpecPages: GET /products/ page by page over a store of several sellers. *)
(***************************************************************************)
PageProducts == 3      \* products in the store

Seller2 == [id |-> "u2", username |-> "bob", email |-> "bob@x.io",
            password_hash |-> get_password_hash("pw1")]
PageTitles == <<<<"B">>, <<"A">>, <<"C">>, <<"E">>, <<"D">>>>
PageRows == [price : {10, 20}, seller_id : {Seller.id, Seller2.id}]

PageQueries ==
    [page : {1, 2, 3}, per_page : {1, 2}, category_id : {NONE}, min_price : {NO_PRICE},
     max_price : {NO_PRICE}, status : {NONE, "sold"}, search : {NONE_TEXT},
     seller_id : {NONE, Seller.id},
     sort_by : {"created_at", "price", "title", "id", "rating"},
     sort_order : {"asc", "desc"}]

\* The later a product's id, the earlier it was created; the last one may be sold.
InitPages ==
    /\ users = {Seller, Seller2} /\ categories = {Books}
    /\ \E rows \in [1..PageProducts -> PageRows], last \in {"available", "sold"} :
          products = {[id |-> ProductIds[i], title |-> PageTitles[i],
                       description |-> NONE_TEXT, price |-> rows[i].price,
                       status |-> IF i = PageProducts THEN last ELSE "available",
                       category_id |-> Books.id, seller_id |-> rows[i].seller_id,
                       created_at |-> PageProducts + 1 - i] : i \in 1..PageProducts}
    /\ tokens = {}
    /\ now = PageProducts + 1
    /\ next_id = [user |-> 2, category |-> 1, product |-> PageProducts]
    /\ cache = EmptyCache
    /\ resp = InitResp
    /\ fk_enforced = TRUE
    /\ inflight = {}
    /\ limiter = EmptyLimiter
    /\ images = EmptyDirectory

GetProductsPages == \E q \in PageQueries, db \in SearchDb : get_products(q, db)

NextPages == GetProductsPages

SpecPages == InitPages /\ [][NextPages]_vars

(***************************************************************************)
(* SpecCache: product writes interleaved with cached listings.             *)
(***************************************************************************)
CacheDb == {"Session@0x7f01", "Session@0x7f02"}
SellerToken == [sub |-> Seller.id, exp |-> ACCESS_TOKEN_EXPIRE_MINUTES * 60]

CacheQueries ==
    [page : {1}, per_page : {10}, category_id : {NONE}, min_price : {NO_PRICE},
     max_price : {NO_PRICE}, status : {"available", "sold"}, search : {NONE_TEXT},
     seller_id : {NONE}, sort_by : {"created_at"}, sort_order : {"desc"}]

CacheProductData ==
    {[title |-> <<"G", "o">>, description |-> NONE_TEXT, price |-> 30,
      status |-> "available", category_id |-> Books.id]}
CacheProductUpdates == {[status |-> "sold"], [status |-> "available"]}

InitCache ==
    /\ users = {Seller} /\ categories = {Books} /\ products = {}
    /\ tokens = {SellerToken}
    /\ now = 0
    /\ next_id = [user |-> 1, category |-> 1, product |-> 0]
    /\ cache = EmptyCache
    /\ resp = InitResp
    /\ fk_enforced \in BOOLEAN
    /\ inflight = {}
    /\ limiter = EmptyLimiter
    /\ images = EmptyDirectory

CreateProductCache == \E t \in tokens, d \in CacheProductData : create_product(t, d)
UpdateProductCache ==
    \E t \in tokens, p \in StoreProductRefs, u \in CacheProductUpdates : update_product(t, p, u)
DeleteProductCache == \E t \in tokens, p \in StoreProductRefs : delete_product(t, p)
GetProductsCache == \E q \in CacheQueries, db \in CacheDb : get_products(q, db)

NextCache ==
    \/ CreateProductCache \/ UpdateProductCache \/ DeleteProductCache
    \/ GetProductsCache \/ Tick

SpecCache == InitCache /\ [][NextCache]_vars

(***************************************************************************)
(* SpecMem: InMemoryCache used directly, as time passes.                   *)
(***************************************************************************)
MemKeys == {"k1", "k2"}
MemValues == {[kind |-> "v1"], [kind |-> "v2"]}
MemTtls == {0, TickStep, 2 * TickStep}

InitMem ==
    /\ users = {} /\ categories = {} /\ products = {}
    /\ tokens = {}
    /\ now = 0
    /\ next_id = [user |-> 0, category |-> 0, product |-> 0]
    /\ cache = EmptyCache
    /\ resp = InitResp
    /\ fk_enforced = TRUE
    /\ inflight = {}
    /\ limiter = EmptyLimiter
    /\ images = EmptyDirectory

\* A call of one cache method; resp holds the call and what it returned.
CacheCall(op, key, returned, branch) ==
    /\ Reply(Response(op, [key |-> key], 200, branch, returned))
    /\ UNCHANGED <<users, categories, products, tokens, now, next_id, fk_enforced, inflight,
                   limiter, images>>

MemSet ==
    \E key \in MemKeys, value \in MemValues, ttl \in MemTtls :
        /\ cache' = cache_set(cache, key, value, ttl)
        /\ CacheCall("cache_set", key, NoBody, "")

MemGet ==
    \E key \in MemKeys :
        LET got == cache_get(cache, key)
        IN  /\ cache' = got.cache
            /\ CacheCall("cache_get", key, got.value, got.branch)

MemDelete ==
    \E key \in MemKeys :
        /\ cache' = cache_delete(cache, key)
        /\ CacheCall("cache_delete", key, NoBody, "")

MemClear ==
    /\ cache' = cache_clear(cache)
    /\ CacheCall("cache_clear", NONE, NoBody, "")

NextMem == MemSet \/ MemGet \/ MemDelete \/ MemClear \/ Tick

SpecMem == InitMem /\ [][NextMem]_vars

(***************************************************************************)
(* SpecRace: requests served by separate workers.  A handler reads the     *)
(* store when it runs its duplicate check and writes it at db.commit();    *)
(* another worker's commit may fall between the two.                       *)
(***************************************************************************)
Amy == [id |-> "ua", username |-> "amy", email |-> "amy@x.io",
        password_hash |-> get_password_hash("pw1")]
Bob == [id |-> "ub", username |-> "bob", email |-> "bob@x.io",
        password_hash |-> get_password_hash("pw1")]
TokenOf(u) == [sub |-> u.id, exp |-> ACCESS_TOKEN_EXPIRE_MINUTES * 60]

Toys == [id |-> "cz", name |-> "Toys", description |-> NONE]
Kite == [id |-> "pz", title |-> <<"K">>, description |-> NONE_TEXT, price |-> 10,
         status |-> "available", category_id |-> Toys.id, seller_id |-> Amy.id,
         created_at |-> 0]

RaceRequests ==
    {[op |-> "register_user", token |-> BadToken, username |-> "cat", email |-> e, name |-> NONE,
      product_id |-> NONE] : e \in {"cat@x.io", "kit@x.io"}}
    \cup {[op |-> "create_category", token |-> TokenOf(u), username |-> NONE, email |-> NONE,
           name |-> "Books", product_id |-> NONE] : u \in {Amy, Bob}}
    \cup {[op |-> "update_user_profile", token |-> TokenOf(u), username |-> "cat",
           email |-> NONE, name |-> NONE, product_id |-> NONE] : u \in {Amy, Bob}}
    \cup {[op |-> o, token |-> TokenOf(Amy), username |-> NONE, email |-> NONE, name |-> NONE,
           product_id |-> Kite.id] : o \in {"update_product", "delete_product"}}

\* The body of the PUT /products/{product_id} requests of the race.
RaceProductUpdate == [status |-> "sold"]

InitRace ==
    /\ users = {Amy, Bob} /\ categories = {Toys} /\ products = {Kite}
    /\ tokens = {TokenOf(Amy), TokenOf(Bob)}
    /\ now = 0
    /\ next_id = [user |-> 0, category |-> 0, product |-> 0]
    /\ cache = EmptyCache
    /\ resp = InitResp
    /\ fk_enforced = TRUE
    /\ inflight = {}
    /\ limiter = EmptyLimiter
    /\ images = EmptyDirectory

\* The request r moves on: to its commit, or to its response.
Advance(r, pc, status, detail) ==
    /\ inflight' = (inflight \ {r}) \cup {[r EXCEPT !.pc = pc, !.status = status,
                                                  !.detail = detail]}
    /\ IF pc = "done"
       THEN Reply(Response(r.op, [token |-> r.token], status, detail, NoBody))
       ELSE UNCHANGED resp

\* A worker accepts a request.
StartRequest ==
    /\ Cardinality(inflight) < MaxRequests
    /\ \E q \in RaceRequests :
          inflight' = inflight \cup
              {[rid |-> Cardinality(inflight) + 1, op |-> q.op, token |-> q.token,
                username |-> q.username, email |-> q.email, name |-> q.name,
                product_id |-> q.product_id, committed |-> FALSE,
                pc |-> "check", status |-> 0, detail |-> ""]}
    /\ UNCHANGED <<users, categories, products, tokens, now, next_id, cache, resp,
                   fk_enforced, limiter, images>>

\* register_user has no check of its own: db.commit() and `except IntegrityError`.
RaceRegister ==
    \E r \in inflight :
        /\ r.op = "register_user" /\ r.pc = "check"
        /\ LET db_user == [id |-> UserIds[next_id.user + 1], username |-> r.username,
                           email |-> r.email, password_hash |-> get_password_hash("pw1")]
           IN  IF IntegrityOK(users \cup {db_user}, categories, products)
               THEN /\ next_id.user < MaxUsers
                    /\ users' = users \cup {db_user}
                    /\ next_id' = [next_id EXCEPT !.user = @ + 1]
                    /\ Advance(r, "done", 201, "")
               ELSE /\ UNCHANGED <<users, next_id>>
                    /\ Advance(r, "done", 400, "Username or email already registered")
        /\ UNCHANGED <<categories, products, tokens, now, cache, fk_enforced, limiter, images>>

\* create_category up to `if existing_category`.
RaceCategoryCheck ==
    \E r \in inflight :
        /\ r.op = "create_category" /\ r.pc = "check"
        /\ LET auth == get_current_user(r.token)
           IN  IF auth.status # 200 THEN Advance(r, "done", auth.status, auth.detail)
               ELSE IF CategoryNameExists(r.name)
               THEN Advance(r, "done", 409, "Category with this name already exists")
               ELSE Advance(r, "commit", 0, "")
        /\ UNCHANGED <<users, categories, products, tokens, now, next_id, cache, fk_enforced, limiter, images>>

\* create_category from db.add to its response: `except Exception` answers 500.
RaceCategoryCommit ==
    \E r \in inflight :
        /\ r.op = "create_category" /\ r.pc = "commit"
        /\ LET category == [id |-> CategoryIds[next_id.category + 1], name |-> r.name,
                            description |-> NONE]
           IN  IF IntegrityOK(users, categories \cup {category}, products)
               THEN /\ next_id.category < MaxCategories
                    /\ categories' = categories \cup {category}
                    /\ next_id' = [next_id EXCEPT !.category = @ + 1]
                    /\ Advance(r, "done", 201, "")
               ELSE /\ UNCHANGED <<categories, next_id>>
                    /\ Advance(r, "done", 500, "Failed to create category")
        /\ UNCHANGED <<users, products, tokens, now, cache, fk_enforced, limiter, images>>

\* update_user_profile up to the two `if existing_user` checks.
RaceProfileCheck ==
    \E r \in inflight :
        /\ r.op = "update_user_profile" /\ r.pc = "check"
        /\ LET auth == get_current_user(r.token)
           IN  IF auth.status # 200 THEN Advance(r, "done", auth.status, auth.detail)
               ELSE IF ProfileFieldTaken(UserById(auth.user_id), [username |-> r.username],
                                         "username")
               THEN Advance(r, "done", 409, "Username already taken")
               ELSE Advance(r, "commit", 0, "")
        /\ UNCHANGED <<users, categories, products, tokens, now, next_id, cache, fk_enforced, limiter, images>>

\* update_user_profile from setattr to its response: `except Exception` answers 500.
RaceProfileCommit ==
    \E r \in inflight :
        /\ r.op = "update_user_profile" /\ r.pc = "commit"
        /\ LET current_user == UserById(r.token.sub)
               users2 == (users \ {current_user})
                            \cup {ApplyUpdate(current_user, [username |-> r.username])}
           IN  IF IntegrityOK(users2, categories, products)
               THEN /\ users' = users2
                    /\ Advance(r, "done", 200, "")
               ELSE /\ UNCHANGED users
                    /\ Advance(r, "done", 500, "Failed to update user profile")
        /\ UNCHANGED <<categories, products, tokens, now, next_id, cache, fk_enforced, limiter, images>>

\* update_product up to the category check: the product is loaded into the session.
RaceProductCheck ==
    \E r \in inflight :
        /\ r.op = "update_product" /\ r.pc = "check"
        /\ LET auth == get_current_user(r.token)
               found == \E p \in products : p.id = r.product_id
               product == ProductById(r.product_id)
           IN  IF auth.status # 200 THEN Advance(r, "done", auth.status, auth.detail)
               ELSE IF ~found THEN Advance(r, "done", 404, "Product not found")
               ELSE IF ~IsOwner(product, auth.user_id)
               THEN Advance(r, "done", 403, "You can only update your own products")
               ELSE IF CategoryCheckFails(product, RaceProductUpdate)
               THEN Advance(r, "done", 404, "Category not found")
               ELSE Advance(r, "commit", 0, "")
        /\ UNCHANGED <<users, categories, products, tokens, now, next_id, cache, fk_enforced,
                       limiter, images>>

\* update_product: setattr and db.commit().  The UPDATE of a row that is gone, or
\* one that breaks a constraint, raises and is rolled back: `except Exception`.
RaceProductCommit ==
    \E r \in inflight :
        /\ r.op = "update_product" /\ r.pc = "commit"
        /\ LET found == \E p \in products : p.id = r.product_id
               product == ProductById(r.product_id)
               products2 == (products \ {product}) \cup {ApplyUpdate(product, RaceProductUpdate)}
           IN  IF found /\ IntegrityOK(users, categories, products2)
               THEN /\ products' = products2
                    /\ inflight' = (inflight \ {r})
                                      \cup {[r EXCEPT !.pc = "refresh", !.committed = TRUE]}
                    /\ UNCHANGED resp
               ELSE /\ UNCHANGED products
                    /\ Advance(r, "done", 500, "Failed to update product")
        /\ UNCHANGED <<users, categories, tokens, now, next_id, cache, fk_enforced, limiter, images>>

\* update_product after its commit, still inside the try: db.refresh(product)
\* raises when the row is gone, and `except Exception` answers 500.
RaceProductRefresh ==
    \E r \in inflight :
        /\ r.op = "update_product" /\ r.pc = "refresh"
        /\ IF \E p \in products : p.id = r.product_id
           THEN /\ cache' = invalidate_product_cache(cache, r.product_id)
                /\ Advance(r, "done", 200, "")
           ELSE /\ UNCHANGED cache
                /\ Advance(r, "done", 500, "Failed to update product")
        /\ UNCHANGED <<users, categories, products, tokens, now, next_id, fk_enforced, limiter, images>>

\* delete_product, served in one piece by another worker.
RaceProductDelete ==
    \E r \in inflight :
        /\ r.op = "delete_product" /\ r.pc = "check"
        /\ LET auth == get_current_user(r.token)
               found == \E p \in products : p.id = r.product_id
               product == ProductById(r.product_id)
           IN  IF auth.status # 200
               THEN /\ UNCHANGED products
                    /\ Advance(r, "done", auth.status, auth.detail)
               ELSE IF ~found
               THEN /\ UNCHANGED products
                    /\ Advance(r, "done", 404, "Product not found")
               ELSE IF ~IsOwner(product, auth.user_id)
               THEN /\ UNCHANGED products
                    /\ Advance(r, "done", 403, "You can only delete your own products")
               ELSE /\ products' = products \ {product}
                    /\ inflight' = (inflight \ {r})
                                      \cup {[r EXCEPT !.pc = "done", !.status = 200,
                                                      !.committed = TRUE]}
                    /\ Reply(Response(r.op, [token |-> r.token], 200, "", NoBody))
        /\ UNCHANGED <<users, categories, tokens, now, next_id, cache, fk_enforced, limiter, images>>

NextRace ==
    \/ StartRequest \/ RaceRegister
    \/ RaceCategoryCheck \/ RaceCategoryCommit
    \/ RaceProfileCheck \/ RaceProfileCommit
    \/ RaceProductCheck \/ RaceProductCommit \/ RaceProductRefresh
    \/ RaceProductDelete

SpecRace == InitRace /\ [][NextRace]_vars

(***************************************************************************)
(* SpecOrphan: POST /products/ for a category and DELETE of that category, *)
(* served by separate workers.  create_product reads the category, then    *)
(* commits its INSERT; delete_category reads the category, then commits    *)
(* the DELETE of the category and of the products found in it at the flush.*)
(***************************************************************************)
OrphanRequests ==
    {[op |-> "create_product", token |-> TokenOf(u), category_id |-> Toys.id] : u \in {Amy, Bob}}
    \cup {[op |-> "delete_category", token |-> TokenOf(Bob), category_id |-> Toys.id]}

\* The body of the POST /products/ requests of the race.
OrphanProductData(category_id) ==
    [title |-> <<"B">>, description |-> NONE_TEXT, price |-> 5, status |-> "available",
     category_id |-> category_id]

InitOrphan ==
    /\ users = {Amy, Bob} /\ categories = {Toys} /\ products = {Kite}
    /\ tokens = {TokenOf(Amy), TokenOf(Bob)}
    /\ now = 0
    /\ next_id = [user |-> 0, category |-> 0, product |-> 0]
    /\ cache = EmptyCache
    /\ resp = InitResp
    /\ fk_enforced \in BOOLEAN
    /\ inflight = {}
    /\ limiter = EmptyLimiter
    /\ images = EmptyDirectory

\* A worker accepts a request.
StartOrphanRequest ==
    /\ Cardinality(inflight) < MaxRequests
    /\ \E q \in OrphanRequests :
          inflight' = inflight \cup
              {[rid |-> Cardinality(inflight) + 1, op |-> q.op, token |-> q.token,
                category_id |-> q.category_id, product_id |-> NONE,
                pc |-> "check", status |-> 0, detail |-> ""]}
    /\ UNCHANGED <<users, categories, products, tokens, now, next_id, cache, resp,
                   fk_enforced, limiter, images>>

\* create_product up to `if not category`.
OrphanCreateCheck ==
    \E r \in inflight :
        /\ r.op = "create_product" /\ r.pc = "check"
        /\ LET auth == get_current_user(r.token)
           IN  IF auth.status # 200 THEN Advance(r, "done", auth.status, auth.detail)
               ELSE IF ~ValidProductCreate(OrphanProductData(r.category_id))
               THEN Advance(r, "done", 422, "validation")
               ELSE IF ~\E c \in categories : c.id = r.category_id
               THEN Advance(r, "done", 404, "Category not found")
               ELSE Advance(r, "commit", 0, "")
        /\ UNCHANGED <<users, categories, products, tokens, now, next_id, cache, fk_enforced,
                       limiter, images>>

\* create_product: db.add(product) and db.commit(); `except Exception` answers 500.
OrphanCreateCommit ==
    \E r \in inflight :
        /\ r.op = "create_product" /\ r.pc = "commit"
        /\ LET data == model_dump(OrphanProductData(r.category_id), ProductCreateFields)
               product == [id |-> ProductIds[next_id.product + 1],
                           title |-> data.title, description |-> data.description,
                           price |-> data.price, status |-> data.status,
                           category_id |-> data.category_id,
                           seller_id |-> r.token.sub, created_at |-> now]
           IN  IF IntegrityOK(users, categories, products \cup {product})
               THEN /\ next_id.product < MaxProducts
                    /\ products' = products \cup {product}
                    /\ next_id' = [next_id EXCEPT !.product = @ + 1]
                    /\ inflight' = (inflight \ {r})
                                      \cup {[r EXCEPT !.pc = "refresh", !.product_id = product.id]}
                    /\ UNCHANGED resp
               ELSE /\ UNCHANGED <<products, next_id>>
                    /\ Advance(r, "done", 500, "Failed to create product")
        /\ UNCHANGED <<users, categories, tokens, now, cache, fk_enforced, limiter, images>>

\* create_product after its commit, still inside the try: db.refresh(product)
\* raises when the row is gone, and `except Exception` answers 500.
OrphanCreateRefresh ==
    \E r \in inflight :
        /\ r.op = "create_product" /\ r.pc = "refresh"
        /\ IF \E p \in products : p.id = r.product_id
           THEN /\ cache' = invalidate_product_cache(cache, NONE)
                /\ Advance(r, "done", 201, "")
           ELSE /\ UNCHANGED cache
                /\ Advance(r, "done", 500, "Failed to create product")
        /\ UNCHANGED <<users, categories, products, tokens, now, next_id, fk_enforced, limiter, images>>

\* delete_category up to the product count.
OrphanDeleteCheck ==
    \E r \in inflight :
        /\ r.op = "delete_category" /\ r.pc = "check"
        /\ LET auth == get_current_user(r.token)
           IN  IF auth.status # 200 THEN Advance(r, "done", auth.status, auth.detail)
               ELSE IF ~\E c \in categories : c.id = r.category_id
               THEN Advance(r, "done", 404, "Category not found")
               ELSE Advance(r, "commit", 0, "")
        /\ UNCHANGED <<users, categories, products, tokens, now, next_id, cache, fk_enforced,
                       limiter, images>>

\* delete_category: db.delete(category) and db.commit().  The flush loads
\* category.products and deletes them with the category; a category that is
\* gone by then makes the DELETE match no row, which raises: 500.
OrphanDeleteCommit ==
    \E r \in inflight :
        /\ r.op = "delete_category" /\ r.pc = "commit"
        /\ LET found == \E c \in categories : c.id = r.category_id
               categories2 == {c \in categories : c.id # r.category_id}
               products2 == products \ CascadeCategory(r.category_id)
           IN  IF found /\ IntegrityOK(users, categories2, products2)
               THEN /\ categories' = categories2
                    /\ products' = products2
                    /\ Advance(r, "done", 200, "")
               ELSE /\ UNCHANGED <<categories, products>>
                    /\ Advance(r, "done", 500, "Failed to delete category")
        /\ UNCHANGED <<users, tokens, now, next_id, cache, fk_enforced, limiter, images>>

NextOrphan ==
    \/ StartOrphanRequest
    \/ OrphanCreateCheck \/ OrphanCreateCommit \/ OrphanCreateRefresh
    \/ OrphanDeleteCheck \/ OrphanDeleteCommit

SpecOrphan == InitOrphan /\ [][NextOrphan]_vars

(***************************************************************************)
(* SpecWrites: POST /products/ and PUT /products/{product_id}, served one  *)
(* request at a time, with bodies that are invalid, partial, or carry a    *)
(* field the schemas do not declare.                                       *)
(***************************************************************************)
WriteTokens == {TokenOf(Amy), TokenOf(Bob), BadToken}
WriteProductRefs == {Kite.id, ProductIds[1], ProductIds[2]}

\* Bodies of POST /products/: the last ones name a seller in the body.
WriteProductData ==
    [title : {<<"K">>}, description : {NONE_TEXT}, price : {0 - 5, 0, 5},
     status : {"available"}, category_id : {Toys.id}]
    \cup [title : {<<"K">>}, description : {NONE_TEXT}, price : {5},
          status : {"available"}, category_id : {Toys.id, CategoryIds[1]},
          seller_id : {Bob.id}]

\* Bodies of PUT /products/{product_id}.
WriteProductUpdates ==
    {[price |-> x] : x \in {0, 7, NULL_PRICE}}
    \cup {[status |-> "sold", seller_id |-> Bob.id], [title |-> <<"L">>, price |-> 0 - 5]}

InitWrites ==
    /\ users = {Amy, Bob} /\ categories = {Toys} /\ products = {Kite}
    /\ tokens = {TokenOf(Amy), TokenOf(Bob)}
    /\ now = 0
    /\ next_id = [user |-> 0, category |-> 0, product |-> 0]
    /\ cache = EmptyCache
    /\ resp = InitResp
    /\ fk_enforced \in BOOLEAN
    /\ inflight = {}
    /\ limiter = EmptyLimiter
    /\ images = EmptyDirectory

CreateProductWrites == \E t \in WriteTokens, d \in WriteProductData : create_product(t, d)
UpdateProductWrites ==
    \E t \in WriteTokens, p \in WriteProductRefs, u \in WriteProductUpdates :
        update_product(t, p, u)

NextWrites == CreateProductWrites \/ UpdateProductWrites

SpecWrites == InitWrites /\ [][NextWrites]_vars

(***************************************************************************)
(* SpecNames: POST /categories/ and the three PUT routes (category,        *)
(* profile, product), served one request at a time.                        *)
(***************************************************************************)
NameCategoryRefs == {Toys.id, CategoryIds[1]}
NameCategoryNames == {"Toys", "toys"}

\* Bodies of PUT /categories/{category_id} and of PUT /users/profile.
NameCategoryUpdates ==
    {[name |-> n] : n \in NameCategoryNames}
    \cup {[description |-> "for children"], [name |-> NONE]}
NameProfileUpdates == {[username |-> "amelia"], [email |-> "amy@y.io"], [email |-> "bob@x.io"]}
NameProductUpdates == {[price |-> 7], [status |-> "sold", seller_id |-> Bob.id]}

InitNames == InitWrites

CreateCategoryNames ==
    \E t \in WriteTokens, n \in NameCategoryNames : create_category(t, n, NONE)
UpdateCategoryNames ==
    \E t \in WriteTokens, c \in NameCategoryRefs, u \in NameCategoryUpdates :
        update_category(t, c, u)
UpdateProfileNames ==
    \E t \in WriteTokens, u \in NameProfileUpdates : update_user_profile(t, u)

UpdateProductNames ==
    \E t \in WriteTokens, u \in NameProductUpdates : update_product(t, Kite.id, u)

NextNames ==
    CreateCategoryNames \/ UpdateCategoryNames \/ UpdateProfileNames \/ UpdateProductNames

SpecNames == InitNames /\ [][NextNames]_vars

(***************************************************************************)
(* SpecKeys: functions behind cached(prefix, 300), called with             *)
(* positional and keyword arguments whose texts may hold ":" and "=".      *)
(***************************************************************************)
KeyPrefixes == {<<"products">>, <<"categories">>}
KeyTexts == {<<"a">>, <<"b">>, <<"a", ":", "b">>}
KeyArgs == {<<>>} \cup {<<t>> : t \in KeyTexts} \cup {<<<<"a">>, <<"b">>>>}
KeyKwargs ==
    {<<>>,
     <<[k |-> <<"x">>, v |-> <<"1">>]>>,
     <<[k |-> <<"x">>, v |-> <<"1", ":", "y", "=", "2">>]>>,
     <<[k |-> <<"x">>, v |-> <<"1">>], [k |-> <<"y">>, v |-> <<"2">>]>>}

\* What the wrapped function returns: a value that tells its arguments.
ResultFor(args, kwargs) == [args |-> args, kwargs |-> kwargs]

InitKeys == InitMem

CachedCall ==
    \E prefix \in KeyPrefixes, args \in KeyArgs, kwargs \in KeyKwargs :
        cached(prefix, PRODUCTS_TTL, args, kwargs, ResultFor(args, kwargs))

NextKeys == CachedCall \/ MemClear \/ Tick

SpecKeys == InitKeys /\ [][NextKeys]_vars

(***************************************************************************)
(* SpecUploads: a user uploads and deletes images; any step of the          *)
(* processing of an upload may raise.                                      *)
(***************************************************************************)
UploadTokens == {TokenOf(Amy), BadToken}
UploadFiles ==
    {[filename |-> <<"cat", ".", "JPG">>, size |-> 1024],
     [filename |-> <<"cat", ".", "v2", ".", "png">>, size |-> MAX_FILE_SIZE],
     [filename |-> <<"cat", ".", "png">>, size |-> MAX_FILE_SIZE + 1],
     [filename |-> <<"notes", ".", "txt">>, size |-> 1024]}
UploadFaults == {"none", "open", "write", "Image.open", "thumbnail", "medium", "large"}
\* An image uploaded and processed before the run starts.
Seed == <<"seed", ".", "png">>
SeedFiles == {Seed} \cup {resized_filename(Seed, IMAGE_SIZES[i]) : i \in 1..Len(IMAGE_SIZES)}
\* Names a client may ask to delete: of originals in the directory, of the
\* first upload whether its original is there or not, and one without a dot.
UploadNames ==
    {f \in images.files : \A i \in 1..Len(f) : f[i] # "_"}
        \cup {<<"uuid", "0", ".", "jpg">>, <<"uuid", "0">>}

InitUploads ==
    /\ users = {Amy, Bob} /\ categories = {} /\ products = {}
    /\ tokens = {TokenOf(Amy), TokenOf(Bob)}
    /\ now = 0
    /\ next_id = [user |-> 0, category |-> 0, product |-> 0]
    /\ cache = EmptyCache
    /\ resp = InitResp
    /\ fk_enforced = TRUE
    /\ inflight = {}
    /\ limiter = EmptyLimiter
    /\ \E pil \in BOOLEAN :
          images = [EmptyDirectory EXCEPT !.files = SeedFiles, !.PIL_AVAILABLE = pil]

UploadImage ==
    \E token \in UploadTokens, file \in UploadFiles, fault \in UploadFaults :
        upload_image(token, file, fault)

DeleteImage ==
    \E token \in UploadTokens, filename \in UploadNames : delete_image(token, filename)

NextUploads == UploadImage \/ DeleteImage

SpecUploads == InitUploads /\ [][NextUploads]_vars

(***************************************************************************)
(* SpecRedis: the cache methods and a cached listing over RedisCache, with *)
(* a server that may be unreachable at any call.                           *)
(***************************************************************************)
RedisQueries == CacheQueries
RedisKeys == {_generate_key(<<"products">>, <<>>, QueryKwargs(q, db)) : q \in RedisQueries, db \in SearchDb}
RedisTtls == {0, TickStep}

InitRedis ==
    /\ users = {Amy} /\ categories = {Toys} /\ products = {Kite}
    /\ tokens = {}
    /\ now = 0
    /\ next_id = [user |-> 0, category |-> 0, product |-> 0]
    /\ cache = EmptyCache
    /\ resp = InitResp
    /\ fk_enforced = TRUE
    /\ inflight = {}
    /\ limiter = EmptyLimiter
    /\ images = EmptyDirectory

\* A call of one RedisCache method: resp holds the call, whether the server
\* failed during it, and what the call returned (200) or raised (500).
RedisCall(op, key, fails, did) ==
    /\ cache' = did.cache
    /\ Reply(Response(op, [key |-> key, fails |-> fails],
                      IF did.raised = "" THEN 200 ELSE 500, did.raised, did.value))
    /\ UNCHANGED <<users, categories, products, tokens, now, next_id, fk_enforced, inflight,
                   limiter, images>>

RedisGet ==
    \E key \in RedisKeys, fails \in BOOLEAN :
        RedisCall("redis_get", key, fails, redis_get(cache, key, fails))

RedisSet ==
    \E key \in RedisKeys, value \in MemValues, ttl \in RedisTtls, fails \in BOOLEAN :
        RedisCall("redis_set", key, fails, redis_set(cache, key, value, ttl, fails))

RedisDelete ==
    \E key \in RedisKeys, fails \in BOOLEAN :
        RedisCall("redis_delete", key, fails, redis_delete(cache, key, fails))

RedisClear ==
    \E fails \in BOOLEAN : RedisCall("redis_clear", NONE, fails, redis_clear(cache, fails))

\* GET /products/ through `cached` on this backend: cache_manager.get, then on
\* None the handler and cache_manager.set; an exception of set leaves the wrapper.
CachedRead ==
    \E q \in RedisQueries, db \in SearchDb, get_fails \in BOOLEAN, set_fails \in BOOLEAN :
        \E cache_key \in {_generate_key(<<"products">>, <<>>, QueryKwargs(q, db))} :
        LET got == redis_get(cache, cache_key, get_fails)
            req == [q |-> q, fails |-> get_fails \/ (got.value = NoBody /\ set_fails)]
        IN  /\ IF got.value # NoBody
               THEN /\ Reply(Response("cached_get_products", req, 200, "", got.value))
                    /\ UNCHANGED cache
               ELSE \E result \in ProductListings(q) :
                       LET did == redis_set(cache, cache_key, result, PRODUCTS_TTL, set_fails)
                       IN  /\ cache' = did.cache
                           /\ IF did.raised = ""
                              THEN Reply(Response("cached_get_products", req, 200, "", result))
                              ELSE Reply(Response("cached_get_products", req, 500, did.raised,
                                                  NoBody))
            /\ UNCHANGED <<users, categories, products, tokens, now, next_id, fk_enforced,
                           inflight, limiter, images>>

NextRedis == RedisGet \/ RedisSet \/ RedisDelete \/ RedisClear \/ CachedRead \/ Tick

SpecRedis == InitRedis /\ [][NextRedis]_vars

(***************************************************************************)
(* utils/rate_limiting.py: InMemoryRateLimiter and the rate_limit wrapper. *)
(***************************************************************************)
\* The elements of a sequence that pass a test, in order.
RECURSIVE NewerThan(_, _)
NewerThan(timestamps, cutoff_time) ==
    IF timestamps = <<>> THEN <<>>
    ELSE IF Head(timestamps) > cutoff_time
         THEN <<Head(timestamps)>> \o NewerThan(Tail(timestamps), cutoff_time)
         ELSE NewerThan(Tail(timestamps), cutoff_time)

\* InMemoryRateLimiter._cleanup_old_entries(window_seconds): once the cleanup
\* interval has passed, every key loses its timestamps older than the window of
\* this call, and keys left empty are removed.
_cleanup_old_entries(l, window_seconds) ==
    IF now - l._last_cleanup > CLEANUP_INTERVAL
    THEN LET cutoff_time == now - window_seconds
             kept == {k \in DOMAIN l._requests : NewerThan(l._requests[k], cutoff_time) # <<>>}
         IN  [l EXCEPT !._requests = [k \in kept |-> NewerThan(l._requests[k], cutoff_time)],
                       !._last_cleanup = now]
    ELSE l

\* InMemoryRateLimiter.is_allowed(key, limit, window_seconds): the answer and
\* the limiter afterwards.
is_allowed(l, key, limit, window_seconds) ==
    LET cleaned == _cleanup_old_entries(l, window_seconds * 2)
        before == IF key \in DOMAIN cleaned._requests THEN cleaned._requests[key] ELSE <<>>
        recent == NewerThan(before, now - window_seconds)
        put(timestamps) == [k \in (DOMAIN cleaned._requests) \cup {key} |->
                               IF k = key THEN timestamps ELSE cleaned._requests[k]]
        log == IF key \in DOMAIN l.allowed THEN l.allowed[key] ELSE <<>>
    IN  IF Len(recent) >= limit
        THEN [allowed |-> FALSE, limiter |-> [cleaned EXCEPT !._requests = put(recent)]]
        ELSE [allowed |-> TRUE,
              limiter |-> [cleaned EXCEPT
                              !._requests = put(Append(recent, now)),
                              !.allowed = [k \in (DOMAIN l.allowed) \cup {key} |->
                                              IF k = key THEN Append(log, now)
                                              ELSE l.allowed[k]]]]

\* InMemoryRateLimiter.get_remaining_requests
get_remaining_requests(l, key, limit, window_seconds) ==
    IF key \notin DOMAIN l._requests THEN limit
    ELSE LET current_requests == Len(NewerThan(l._requests[key], now - window_seconds))
         IN  IF limit - current_requests > 0 THEN limit - current_requests ELSE 0

\* rate_limit(calls, period) around the handler func, for a request of client_ip:
\* 429 with Retry-After when the limiter refuses, the handler otherwise.
rate_limit(func, calls, period, client_ip) ==
    LET key == [prefix |-> "rate_limit", func |-> func, client_ip |-> client_ip]
        req == [func |-> func, calls |-> calls, period |-> period, client_ip |-> client_ip]
        asked == is_allowed(limiter, key, calls, period)
    IN  /\ limiter' = asked.limiter
        /\ IF ~asked.allowed
           THEN Reply(Response("rate_limit", req, 429, "Rate limit exceeded",
                               [handler_ran |-> FALSE, retry_after |-> period,
                                remaining |-> get_remaining_requests(asked.limiter, key,
                                                                     calls, period)]))
           ELSE Reply(Response("rate_limit", req, 200, "",
                               [handler_ran |-> TRUE, retry_after |-> 0, remaining |-> 0]))
        /\ UNCHANGED <<users, categories, products, tokens, now, next_id, cache, fk_enforced,
                       inflight, images>>

\* DistributedRateLimiter.is_allowed(key, limit, window_seconds) against the
\* sorted sets z of the Redis server: the answer and the sorted sets afterwards.
\* The member of an entry is str(current_time) and its score current_time, so a
\* sorted set is the set of its scores; `expire` removes the key at expires_at.
\* With fails the pipeline raises redis.RedisError and the request is allowed.
distributed_is_allowed(z, key, limit, window_seconds, fails) ==
    LET cutoff_time == now - window_seconds
        held == IF key \in DOMAIN z /\ now < z[key].expires_at THEN z[key].scores ELSE {}
        kept == {score \in held : ~(0 <= score /\ score <= cutoff_time)}
        current_count == Cardinality(kept)
        entry == [scores |-> kept \cup {now}, expires_at |-> now + window_seconds * 2]
    IN  IF fails
        THEN [allowed |-> TRUE, redis |-> z]
        ELSE [allowed |-> current_count < limit,
              redis |-> [k \in (DOMAIN z) \cup {key} |-> IF k = key THEN entry ELSE z[k]]]

(***************************************************************************)
(* SpecInterchange: the same is_allowed calls, at the same times, put to an *)
(* InMemoryRateLimiter and to a DistributedRateLimiter.  The field redis of *)
(* limiter holds the sorted sets of the Redis server; redis_failed records, *)
(* for the properties, whether a call has found Redis unreachable.          *)
(***************************************************************************)
InterchangeCalls ==
    {[key |-> "rate_limit:login_user:10.0.0.1", limit |-> 1, window_seconds |-> 1500],
     [key |-> "rate_limit:create_product:10.0.0.1", limit |-> 2, window_seconds |-> 3600]}

InitInterchange ==
    /\ users = {} /\ categories = {} /\ products = {}
    /\ tokens = {}
    /\ now = 0
    /\ next_id = [user |-> 0, category |-> 0, product |-> 0]
    /\ cache = EmptyCache
    /\ resp = InitResp
    /\ fk_enforced = TRUE
    /\ inflight = {}
    /\ limiter = [_requests |-> <<>>, _last_cleanup |-> 0, allowed |-> <<>>, redis |-> <<>>,
                  redis_failed |-> FALSE]
    /\ images = EmptyDirectory

\* One call put to both limiters.  time.time() has moved on by the next call.
BothAsked ==
    \E e \in InterchangeCalls, fails \in BOOLEAN :
        LET memory == is_allowed(limiter, e.key, e.limit, e.window_seconds)
            distributed == distributed_is_allowed(limiter.redis, e.key, e.limit,
                                                  e.window_seconds, fails)
        IN  /\ now % TickStep < MaxCalls * CallStep
            /\ now' = now + CallStep
            /\ limiter' = [memory.limiter EXCEPT !.redis = distributed.redis,
                                                 !.redis_failed = @ \/ fails]
            /\ Reply(Response("is_allowed",
                              [key |-> e.key, limit |-> e.limit,
                               window_seconds |-> e.window_seconds, fails |-> fails],
                              200, "",
                              [memory |-> memory.allowed, redis |-> distributed.allowed]))
            /\ UNCHANGED <<users, categories, products, tokens, next_id, cache,
                           fk_enforced, inflight, images>>

NextInterchange == BothAsked \/ Tick

SpecInterchange == InitInterchange /\ [][NextInterchange]_vars

(***************************************************************************)
(* SpecLimiter: two rate-limited handlers called by two clients.           *)
(***************************************************************************)
\* An hourly and a per-minute limit (APIRateLimits names 20/hour and 100/minute; one call each here).
RateLimits ==
    {[func |-> "create_product", calls |-> 1, period |-> 3600],
     [func |-> "get_products", calls |-> 1, period |-> 60]}
ClientIps == {"10.0.0.1", "10.0.0.2"}

InitLimiter == InitMem

LimitedRequest ==
    \E e \in RateLimits, client_ip \in ClientIps :
        rate_limit(e.func, e.calls, e.period, client_ip)

NextLimiter == LimitedRequest \/ Tick

SpecLimiter == InitLimiter /\ [][NextLimiter]_vars

(***************************************************************************)
(* Properties.                                                             *)
(***************************************************************************)
\* The step served request `op`: every handler writes resp and none moves the clock.
Served(ops) == resp'.op \in ops /\ now' = now

ProductWriteOps == {"update_product", "delete_product"}

\* C1: a PUT or DELETE of a stored product with the valid token of a user who
\* is not its seller is answered 403 and leaves the products table as it was;
\* a PUT or DELETE that succeeds was made with the seller's token.
C1_OwnerOnlyWrites ==
    [][Served(ProductWriteOps) =>
         \A p \in products :
            (p.id = resp'.req.id /\ get_current_user(resp'.req.token).status = 200) =>
               /\ resp'.req.token.sub # p.seller_id =>
                     (resp'.status = 403 /\ products' = products)
               /\ resp'.status = 200 => resp'.req.token.sub = p.seller_id]_vars

C1_Witness ==
    /\ resp.op \in ProductWriteOps /\ resp.status = 403
    /\ \E p \in products : p.id = resp.req.id /\ p.seller_id # resp.req.token.sub

\* C3: every stored product's seller_id names a stored user and its category_id
\* names a stored category, and GET /products/{id} answers 200 only for a
\* stored product.
C3_ReferencesExist ==
    /\ ForeignKeysOK(users, categories, products)
    /\ (resp.op = "get_product" /\ resp.status = 200) =>
          \E p \in products : p.id = resp.req.id

\* C4: usernames and emails are unique among stored users, and a registration
\* that repeats a stored username or a stored email is answered 400 or 409 and
\* adds no user.
C4_UniqueAccounts ==
    /\ [](UniqueOn(users, "username") /\ UniqueOn(users, "email"))
    /\ [][(/\ Served({"register_user"})
           /\ \E u \in users : \/ u.username = resp'.req.username
                                \/ u.email = resp'.req.email)
          => (resp'.status \in {400, 409} /\ users' = users)]_vars

C4_Witness ==
    /\ resp.op = "register_user" /\ resp.status = 400
    /\ \E u \in users : u.email = resp.req.email /\ u.username # resp.req.username

ProtectedOps ==
    {"update_user_profile", "delete_user_account", "create_category", "update_category",
     "delete_category", "create_product", "update_product", "delete_product"}

\* C6: a protected request whose token has expired, or whose token's subject is
\* no stored user, is answered 401 and changes neither the store nor the tokens.
C6_DeadTokenRejected ==
    [][(/\ Served(ProtectedOps)
        /\ \/ resp'.req.token.exp < now
           \/ ~\E u \in users : u.id = resp'.req.token.sub)
       => (resp'.status = 401 /\ UNCHANGED <<users, categories, products, tokens>>)]_vars

C6_Witness ==
    /\ resp.op \in ProtectedOps /\ resp.status = 401
    /\ resp.req.token \in tokens
    /\ resp.req.token.exp < now
    /\ \E u \in users : u.id = resp.req.token.sub

C6_WitnessDeleted ==
    /\ resp.op \in ProtectedOps /\ resp.status = 401
    /\ resp.req.token \in tokens
    /\ ~(resp.req.token.exp < now)
    /\ ~\E u \in users : u.id = resp.req.token.sub

\* C7: every failed login, whether the identifier matches no user or the
\* password is wrong, is answered 401 with the one generic detail message.
C7_LoginFailuresAlike ==
    (resp.op = "login_user" /\ resp.status # 200) =>
        (resp.status = 401 /\ resp.detail = "Incorrect username or password")

C7_Witness ==
    /\ resp.op = "login_user" /\ resp.status = 401
    /\ ~\E u \in users : u.username = resp.req.username \/ u.email = resp.req.username
    /\ users # {}

\* C8: a login whose identifier is a stored user's username or email and whose
\* password is that user's succeeds with a token whose subject is that user.
C8_LoginByEitherName ==
    [][Served({"login_user"}) =>
         \A u \in users :
            (/\ resp'.req.username \in {u.username, u.email}
             /\ verify_password(resp'.req.password, u.password_hash))
            => (resp'.status = 200 /\ resp'.body.access_token.sub = u.id)]_vars

\* The products GET /products/ returned, and the rows of the table they show.
Listed(body) == SeqToSet(body.products)

\* C2: a listing answered by GET /products/ is one the query gives on the
\* products table as it is now, whatever was written since an entry was cached.
C2_ListingReflectsWrites ==
    resp.op = "get_products" => resp.body \in ProductListings(resp.req)

\* A row passes every filter of q other than the status filter.
PassesOtherFilters(p, q) ==
    ProductFilter(p, q.category_id, q.min_price, q.max_price, q.search, p.status)

Contains(text, s) ==
    /\ text # NONE_TEXT
    /\ \E i \in 0..(Len(text) - Len(s)) : SubSeq(Lower(text), i + 1, i + Len(s)) = Lower(s)

\* C10: with a search string, exactly the products whose title or description
\* contains it (letter case ignored) are listed and counted.
C10_SearchTitleOrDescription ==
    (resp.op = "get_products" /\ resp.req.search # NONE_TEXT) =>
        LET q == resp.req
            wanted == {p \in products :
                          /\ p.status = StatusArgument(StatusParameter(q.status))
                          /\ Contains(p.title, q.search) \/ Contains(p.description, q.search)}
        IN  /\ resp.body.total = Cardinality(wanted)
            /\ Listed(resp.body) \subseteq wanted

\* C5: whatever the interleaving, the unique columns stay unique and no request
\* that lost a race on one is answered 500.
C5_RaceLoserGetsConflict ==
    /\ UniqueOn(users, "username") /\ UniqueOn(users, "email") /\ UniqueOn(categories, "name")
    /\ \A r \in inflight :
          (r.op \in {"register_user", "create_category", "update_user_profile"} /\ r.pc = "done")
              => r.status \in {200, 201, 400, 409}

\* The rows the query of q filters on, and the page of them it was asked for.
Filtered(q) ==
    {p \in products : ProductFilter(p, q.category_id, q.min_price, q.max_price, q.search,
                                    StatusArgument(StatusParameter(q.status)))}

\* C11: with seller_id given, only that seller's products that pass the other
\* filters are listed, and they are the ones counted.
C11_SellerFilter ==
    (resp.op = "get_products" /\ resp.req.seller_id # NONE) =>
        LET wanted == {p \in Filtered(resp.req) : p.seller_id = resp.req.seller_id}
        IN  /\ Listed(resp.body) \subseteq wanted
            /\ resp.body.total = Cardinality(wanted)

\* The listings the other pages of the same query may return on this store.
OtherPages(q, total_pages) ==
    UNION {ProductListings([q EXCEPT !.page = n]) : n \in (1..total_pages) \ {q.page}}

\* C12: on one snapshot of the store, the page served shares no product with
\* any listing another page of the same query returns, and the pages together
\* list the whole filtered set.
C12_PagesPartition ==
    (resp.op = "get_products" /\ resp.req.page <= resp.body.total_pages) =>
        LET others == OtherPages(resp.req, resp.body.total_pages)
        IN  /\ \A r \in others : Listed(resp.body) \cap Listed(r) = {}
            /\ Listed(resp.body) \cup UNION {Listed(r) : r \in others} = Filtered(resp.req)

\* ceil(total / per_page), by its definition.
CeilDiv(total, per_page) ==
    CHOOSE n \in 0..total : n * per_page >= total /\ (n = 0 \/ (n - 1) * per_page < total)

RequestedLeq(a, b, sort_by) ==
    IF sort_by = "price" THEN a.price <= b.price
    ELSE IF sort_by = "title" THEN TextLeq(a.title, b.title)
    ELSE a.created_at <= b.created_at

\* C14: a listing is ordered by price, title or creation time in the requested
\* direction, and by creation time for any other sort_by.
C14_SortFields ==
    resp.op = "get_products" =>
        LET listing == resp.body.products
            q == resp.req
        IN  \A i, j \in 1..Len(listing) : i < j =>
                IF q.sort_order = "desc" THEN RequestedLeq(listing[j], listing[i], q.sort_by)
                ELSE RequestedLeq(listing[i], listing[j], q.sort_by)

\* The details the write handlers give with a 500.
GenericDetails ==
    {"Failed to create product", "Failed to update product", "Failed to delete product",
     "Failed to create category", "Failed to update category", "Failed to delete category",
     "Failed to update user profile", "Failed to delete user account"}

\* C15: a write request answered 500 carries a generic detail and has
\* committed nothing: what it wrote was never visible to another request.
C15_FailedWriteLeavesNoTrace ==
    \A r \in inflight :
        (r.pc = "done" /\ r.status = 500) => (r.detail \in GenericDetails /\ ~r.committed)

\* C17: get returns the stored value of a key exactly while the key holds an
\* entry whose expiry time has not passed, and leaves the cache as it is; for a
\* missing key or an entry past its expiry time it returns None and the key
\* holds no entry afterwards.
C17_GetOnlyUnexpired ==
    [][Served({"cache_get"}) =>
        LET key == resp'.req.key
            live == key \in DOMAIN cache /\ now <= cache[key].expires_at
        IN  IF live
            THEN resp'.body = cache[key].value /\ cache' = cache
            ELSE /\ resp'.body = NoBody
                 /\ key \notin DOMAIN cache'
                 /\ \A k \in (DOMAIN cache) \ {key} : k \in DOMAIN cache' /\ cache'[k] = cache[k]]_vars

\* An entry was found expired by get: None returned, the entry removed.
C17_Witness ==
    /\ resp.op = "cache_get" /\ resp.detail = "expired"
    /\ resp.body = NoBody
    /\ resp.req.key \notin DOMAIN cache

\* C16: a call during which the cache server failed still returns (get with
\* None), and a cached listing served through such a failure is answered 200
\* with a listing computed from the store.
C16_BackendErrorsAbsorbed ==
    /\ (resp.op \in {"redis_get", "redis_set", "redis_delete", "redis_clear"} /\ resp.req.fails)
          => (resp.status = 200 /\ resp.body = NoBody)
    /\ (resp.op = "cached_get_products" /\ resp.req.fails)
          => (resp.status = 200 /\ resp.body \in ProductListings(resp.req.q))

\* How many of the times in a log fall in the window of the given length that
\* ends at time t (t included).
InWindow(log, t, window_seconds) ==
    Cardinality({i \in 1..Len(log) : log[i] > t - window_seconds /\ log[i] <= t})

\* C18: no key was let through more than `calls` times within any window of
\* `period` seconds, and a refused request is answered 429 with a Retry-After
\* of the period without the handler running.
C18_SlidingWindowLimit ==
    /\ \A key \in DOMAIN limiter.allowed, e \in RateLimits :
          key.func = e.func =>
              \A i \in 1..Len(limiter.allowed[key]) :
                  InWindow(limiter.allowed[key], limiter.allowed[key][i], e.period) <= e.calls
    /\ (resp.op = "rate_limit" /\ resp.status = 429)
          => (~resp.body.handler_ran /\ resp.body.retry_after = resp.req.period)

\* C19: a logout changes nothing on the server, and GET /auth/me with an issued
\* token that is unexpired and whose user is stored returns that user, whatever
\* logouts went before.
C19_LogoutRevokesNothing ==
    [][/\ Served({"logout_user"}) =>
            UNCHANGED <<users, categories, products, tokens, next_id, cache>>
       /\ (/\ Served({"get_current_user_info"})
           /\ resp'.req.token \in tokens
           /\ ~(resp'.req.token.exp < now)
           /\ \E u \in users : u.id = resp'.req.token.sub)
          => (resp'.status = 200 /\ resp'.body.id = resp'.req.token.sub)]_vars

\* A token was logged out and still resolves to its user.
C19_Witness ==
    /\ resp.op = "logout_user" /\ resp.status = 200
    /\ resp.req.token \in tokens
    /\ get_current_user(resp.req.token).status = 200

\* C20: a logout is answered 200 when its token resolves to a user, and 401
\* when it does not.
C20_LogoutNeedsToken ==
    [][Served({"logout_user"}) =>
        IF get_current_user(resp'.req.token).status = 200
        THEN resp'.status = 200
        ELSE resp'.status = 401]_vars

\* The request just served came with a token that authenticates.
Authenticated == get_current_user(resp'.req.token).status = 200

\* The body of the request just served names a price that is a number <= 0.
NonPositivePrice ==
    /\ "price" \in DOMAIN resp'.req.body
    /\ resp'.req.body.price # NULL_PRICE
    /\ resp'.req.body.price <= 0

\* C21: every stored product has price > 0.  An authenticated create or update
\* whose price is <= 0 is answered 422 and changes no table; an authenticated
\* create with price > 0, a title, a valid status and an existing category is
\* answered 201 and stores the product with that price.
C21_PricesStayPositive ==
    [][/\ \A p \in products' : p.price # NULL_PRICE /\ p.price > 0
       /\ (resp'.op \in {"create_product", "update_product"} /\ Authenticated
              /\ NonPositivePrice)
             => (resp'.status = 422 /\ store' = store)
       /\ (resp'.op = "create_product" /\ Authenticated
              /\ resp'.req.body.price > 0
              /\ Len(resp'.req.body.title) >= 1
              /\ resp'.req.body.status \in Statuses
              /\ \E c \in categories : c.id = resp'.req.body.category_id)
             => /\ resp'.status = 201
                /\ \E p \in products' \ products :
                      p.id = resp'.body.id /\ p.price = resp'.req.body.price]_vars

C21_Witness ==
    /\ resp.op = "update_product" /\ resp.status = 422
    /\ resp.req.body = [price |-> 0]
    /\ \E p \in products : p.id = resp.req.id /\ p.seller_id = resp.req.token.sub
                           /\ p.id = ProductIds[1]

\* The request just served is a successful `op`.
Succeeded(op) == resp'.op = op /\ resp'.status = 200

\* C22: a product disappears from the store only in a step that is a
\* successful DELETE of that product by its seller, a successful deletion of
\* its seller's account, or a successful deletion of its category.
C22_ProductsLeaveByDeletionOnly ==
    [][\A p \in products :
          (~\E q \in products' : q.id = p.id) =>
             \/ Succeeded("delete_product") /\ resp'.req.id = p.id
                   /\ resp'.req.token.sub = p.seller_id
             \/ Succeeded("delete_user_account") /\ resp'.req.token.sub = p.seller_id
             \/ Succeeded("delete_category") /\ resp'.req.id = p.category_id]_vars

C22_Witness ==
    /\ resp.op = "delete_category" /\ resp.status = 200
    /\ resp.body.deleted_products_count = 1
    /\ Cardinality(products) = 1

\* C23: no two categories have the same name (names are compared as they are
\* written).  An authenticated create with a name some category holds, and an
\* authenticated rename to a name another category holds, are answered 409 and
\* change no table; an authenticated update that sends the category's own
\* current name is answered 200.
C23_CategoryNamesUnique ==
    [][/\ \A a, b \in categories' : a.name = b.name => a = b
       /\ (resp'.op = "create_category" /\ Authenticated
              /\ \E c \in categories : c.name = resp'.req.body.name)
             => (resp'.status = 409 /\ store' = store)
       /\ (resp'.op = "update_category" /\ Authenticated
              /\ "name" \in DOMAIN resp'.req.body)
             => \A target \in {c \in categories : c.id = resp'.req.id} :
                   /\ (\E c \in categories \ {target} : c.name = resp'.req.body.name)
                         => (resp'.status = 409 /\ store' = store)
                   /\ target.name = resp'.req.body.name => resp'.status = 200]_vars

\* Toys and toys coexist, and a rename of one to the other was just refused.
C23_Witness ==
    /\ \E a, b \in categories : a.name = "Toys" /\ b.name = "toys"
    /\ resp.op = "update_category" /\ resp.status = 409
    /\ \E c \in categories : c.id = resp.req.id /\ c.name # resp.req.body.name

\* Between rows and rows2 only the row `id` changed, and only in fields of body.
OnlyBodyFieldsChanged(rows, rows2, id, body) ==
    \E old \in rows, new \in rows2 :
        /\ old.id = id /\ new.id = id
        /\ rows2 \ {new} = rows \ {old}
        /\ \A f \in (DOMAIN old) \ (DOMAIN body) : new[f] = old[f]

C28_SellerNeverChanges ==
    [][/\ \A p \in products, q \in products' : q.id = p.id => q.seller_id = p.seller_id
       /\ \A q \in products' :
             (~\E p \in products : p.id = q.id) =>
                /\ resp'.op = "create_product" /\ resp'.status = 201
                /\ Authenticated
                /\ q.seller_id = resp'.req.token.sub]_vars

\* Amy's PUT naming Bob as the seller was accepted, on a product Amy created.
C28_Witness ==
    /\ resp.op = "update_product" /\ resp.status = 200
    /\ resp.req.body = [status |-> "sold", seller_id |-> Bob.id]
    /\ resp.req.token = TokenOf(Amy)
    /\ \E p \in products : p.id = resp.req.id /\ p.id = ProductIds[1]
                           /\ p.status = "sold" /\ p.seller_id = Amy.id

\* C25: once the concurrent POST /products/ and DELETE /categories/{id} have
\* all been answered, no stored product names a category that is not stored.
C25_NoProductOfDeletedCategory ==
    (\A r \in inflight : r.pc = "done") =>
        \A p \in products : \E c \in categories : c.id = p.category_id

\* The timestamps the limiter l holds for key that lie in a window of
\* window_seconds ending now: the requests that count against the key's limit.
Counted(l, key, window_seconds) ==
    IF key \in DOMAIN l._requests
    THEN NewerThan(l._requests[key], now - window_seconds)
    ELSE <<>>

\* C26: a call of is_allowed for one key leaves what counts against every
\* other key, in that key's own window, as it was.
C26_KeysIndependent ==
    [][resp'.op = "rate_limit" =>
          \A other \in DOMAIN limiter._requests, e \in RateLimits :
             (other.func = e.func
                /\ <<other.func, other.client_ip>> # <<resp'.req.func, resp'.req.client_ip>>)
                => Counted(limiter', other, e.period) = Counted(limiter, other, e.period)]_vars

\* C27: with Redis reachable so far, the in-memory and the distributed limiter
\* give the same answer to every call.
C27_LimitersAgree ==
    (resp.op = "is_allowed" /\ limiter.redis_failed = FALSE)
        => resp.body.memory = resp.body.redis

\* C29: a call through `cached` returns what the function returns for the
\* arguments of that call.
C29_CachedResultIsOwn ==
    resp.op = "cached" => resp.body = ResultFor(resp.req.args, resp.req.kwargs)

\* C30: an upload answered "Failed to process image" leaves the image
\* directory holding the files it held before the upload, and no others.
C30_FailedUploadLeavesNoFiles ==
    [][(/\ Served({"upload_image"})
        /\ resp'.status = 500
        /\ resp'.detail = "Failed to process image")
       => images'.files = images.files]_vars
====
